---------------------------- MODULE Spec2Model ----------------------------
(***************************************************************************)
(* Model of the per-guild music queue and player of discord-music          *)
(* (src/music_player.py, driven by the commands of src/main.py).           *)
(*                                                                         *)
(* The program runs on one asyncio event loop: a coroutine runs without    *)
(* interruption from one await to the next, so every action below is the   *)
(* code between two awaits of one coroutine.  The voice transport          *)
(* (discord.VoiceClient) plays in a thread of its own and reports the end  *)
(* of a stream through the `after` callback.                               *)
(***************************************************************************)
EXTENDS Integers, Sequences, FiniteSets, TLC

(***************************************************************************)
(* Bounds of the model.                                                    *)
(***************************************************************************)
\* Config.MAX_QUEUE_SIZE (src/config.py:24) is read from the environment,
\* default 100; the model runs it at a small value.
MAX_QUEUE_SIZE == 2
\* Number of Track objects ever constructed in one behaviour of Spec.
MaxTracks == 3
\* Number of Track objects constructed in one behaviour of FairSpec.
FairTracks == 2
\* Number of Track objects ever constructed in one behaviour of QueueSpec.
QMaxTracks == 3
\* Number of coroutines (commands, scheduled play_next calls) alive at once.
NTasks == 2
\* Longest list handed to add_tracks in one call.
MaxBatch == 2
\* guilds with a player
NGuilds == 2
\* MusicPlayer objects constructed
MaxPlayers == 3
\* cleanup coroutines running at once
NCleanups == 2

NoUrl == "None"
Url == "url"

(***************************************************************************)
(* Track (music_player.py:14-55).  `id` is the identity of the Python      *)
(* object.  `fate` is not a field of the class: it is the answer the       *)
(* external services will give for this track, fixed when the track is     *)
(* made, since a track is resolved and materialized at most once:          *)
(*   "ok"        resolution (if needed) and materialization succeed        *)
(*   "noresolve" get_youtube_info returns None for its search query        *)
(*   "nourl"     get_youtube_info returns an info dict that has neither a  *)
(*               webpage_url nor a url entry                               *)
(*   "nosource"  create_audio_source returns None for its url              *)
(* The model lets resolution fail for Spotify tracks and materialization   *)
(* for YouTube tracks.                                                     *)
(***************************************************************************)
Track(id, url, source, fate) ==
    [id |-> id, url |-> url, source |-> source,
     needs_resolution |-> (url = NoUrl), fate |-> fate]

\* Track.from_youtube: the url found by the lookup is passed in.
from_youtube(id, url, fate) == Track(id, url, "youtube", fate)

\* Track.from_spotify: no url is passed, so url is None.
from_spotify(id, fate) == Track(id, NoUrl, "spotify->youtube", fate)

\* Python's None where a Track is expected.
NoTrack == [id |-> 0, url |-> NoUrl, source |-> "None",
            needs_resolution |-> FALSE, fate |-> "None"]

\* The tracks a command can construct with identity id.
YoutubeTracks(id) == {from_youtube(id, Url, f) : f \in {"ok", "nosource"}}
SpotifyTracks(id) == {from_spotify(id, f) : f \in {"ok", "noresolve", "nourl"}}
NewTracks(id) == YoutubeTracks(id) \cup SpotifyTracks(id)

\* A track that play_next cannot play.
Unplayable(t) == t.fate # "ok"

VARIABLES
    tracks,         \* MusicQueue.tracks
    current_track,  \* MusicQueue.current_track
    shuffle_mode,   \* MusicQueue.shuffle_mode
    next_id,        \* identity of the next Track object constructed
    last,           \* the MusicQueue method called last, with its result
    dequeued,       \* ids returned by get_next_track so far, in order
    voice_client,   \* MusicPlayer.voice_client: "None" or the handle "vc"
    connected,      \* voice_client.is_connected()
    playback,       \* the handle's audio player: "none", "playing", "paused",
                    \* or "failed" once its stream has ended with an error
    is_paused,      \* MusicPlayer.is_paused
    pending,        \* play_next calls scheduled by after_playing, not yet started
    task,           \* the coroutines on the event loop, by slot
    auto,           \* position of the on_voice_state_update handler
    players,        \* MusicManager.players: the entries of the dict, in order
    handles,        \* the MusicPlayer objects whose voice_client is set
    next_player,    \* identity of the next MusicPlayer object constructed
    cleanup,        \* the cleanup_player / cleanup_all coroutines, by slot
    got,            \* per guild, the player get_player returned last, 0 once
                    \* a cleanup has touched the guild since
    call,           \* one call of the audio source layer or one playlist
                    \* command: its inputs, its position and its result
    pending_states, \* OAuthCallbackServer.pending_states: per state, the
                    \* future registered for it, 0 when the key is absent
    futures,        \* the asyncio.Future objects register_state has made
    response,       \* the reply to the last callback request
    members,        \* per user, the voice channel the user is in, 0 for none
    channel,        \* player.voice_client.channel, 0 without a voice client
    handler,        \* the on_voice_state_update coroutine that is waiting
    queues,         \* MusicBot.queues[guild_id] of the legacy bot
    voice_clients,  \* MusicBot.voice_clients[guild_id]: "None" or "vc"
    legacy_playback,\* the transport of the legacy bot: "none", "playing" or
                    \* "failed"
    handed          \* the tracks each generation has handed to its
                    \* transport, in order, and what the commands were like

qvars == <<tracks, current_track, shuffle_mode>>
hvars == <<last, dequeued>>
tvars == <<voice_client, connected, playback>>
pvars == <<voice_client, connected, playback, is_paused, pending, task, auto>>
mvars == <<players, handles, next_player, cleanup, got>>
ovars == <<pending_states, futures, response>>
avars == <<members, channel, handler>>
lvars == <<queues, voice_clients, legacy_playback, handed>>
xvars == <<players, handles, next_player, cleanup, got, call, pending_states, futures,
           response, members, channel, handler, queues, voice_clients, legacy_playback,
           handed>>
vars == <<tracks, current_track, shuffle_mode, next_id, last, dequeued,
          voice_client, connected, playback, is_paused, pending, task, auto,
          players, handles, next_player, cleanup, got, call, pending_states, futures,
          response, members, channel, handler, queues, voice_clients, legacy_playback,
          handed>>

(***************************************************************************)
(* MusicQueue (music_player.py:57-123): each method is a function of the   *)
(* list and its arguments, giving the new list and the return value.       *)
(***************************************************************************)
\* add_track with the capacity test off by one.
add_track_off_by_one(q, track) ==
    IF Len(q) > MAX_QUEUE_SIZE
    THEN [tracks |-> q, raised |-> TRUE, ret |-> 0]
    ELSE [tracks |-> Append(q, track), raised |-> FALSE, ret |-> Len(q) + 1]

\* add_track that makes room by dropping the oldest track when full.
add_track_displacing(q, track) ==
    IF Len(q) >= MAX_QUEUE_SIZE
    THEN [tracks |-> Append(Tail(q), track), raised |-> FALSE, ret |-> Len(q)]
    ELSE [tracks |-> Append(q, track), raised |-> FALSE, ret |-> Len(q) + 1]

\* add_track returning the 0-based index of the new track.
add_track_zero_based(q, track) ==
    IF Len(q) >= MAX_QUEUE_SIZE
    THEN [tracks |-> q, raised |-> TRUE, ret |-> 0]
    ELSE [tracks |-> Append(q, track), raised |-> FALSE, ret |-> Len(q)]

add_track(q, track) ==
    IF Len(q) >= MAX_QUEUE_SIZE
    THEN [tracks |-> q, raised |-> TRUE, ret |-> 0]
    ELSE [tracks |-> Append(q, track), raised |-> FALSE, ret |-> Len(q) + 1]

RECURSIVE add_tracks_loop(_, _, _)
add_tracks_loop(q, list, added) ==
    IF list = <<>> \/ Len(q) >= MAX_QUEUE_SIZE
    THEN [tracks |-> q, raised |-> FALSE, ret |-> added]
    ELSE add_tracks_loop(Append(q, Head(list)), Tail(list), added + 1)

\* add_tracks that adds the whole list or nothing.
add_tracks_all_or_nothing(q, list) ==
    IF Len(q) + Len(list) > MAX_QUEUE_SIZE
    THEN [tracks |-> q, raised |-> FALSE, ret |-> 0]
    ELSE add_tracks_loop(q, list, 0)

add_tracks(q, list) == add_tracks_loop(q, list, 0)

\* list.remove(x): drops the first element equal to x.
RemoveAt(q, i) == SubSeq(q, 1, i - 1) \o SubSeq(q, i + 1, Len(q))

\* get_next_track taking the newest track instead of the oldest.
get_next_track_lifo(q, shuffle, choice) ==
    IF q = <<>>
    THEN [tracks |-> q, ret |-> NoTrack]
    ELSE IF shuffle
         THEN [tracks |-> RemoveAt(q, choice), ret |-> q[choice]]
         ELSE [tracks |-> SubSeq(q, 1, Len(q) - 1), ret |-> q[Len(q)]]

\* get_next_track replaying the current track when the queue is empty.
get_next_track_replay(q, shuffle, choice) ==
    IF q = <<>>
    THEN [tracks |-> q, ret |-> current_track]
    ELSE IF shuffle
         THEN [tracks |-> RemoveAt(q, choice), ret |-> q[choice]]
         ELSE [tracks |-> Tail(q), ret |-> Head(q)]

\* get_next_track returning the random choice but removing the head.
get_next_track_pops_head(q, shuffle, choice) ==
    IF q = <<>>
    THEN [tracks |-> q, ret |-> NoTrack]
    ELSE IF shuffle
         THEN [tracks |-> Tail(q), ret |-> q[choice]]
         ELSE [tracks |-> Tail(q), ret |-> Head(q)]

\* `choice` is the index random.choice picks; it is read only when shuffling.
get_next_track(q, shuffle, choice) ==
    IF q = <<>>
    THEN [tracks |-> q, ret |-> NoTrack]
    ELSE IF shuffle
         THEN [tracks |-> RemoveAt(q, choice), ret |-> q[choice]]
         ELSE [tracks |-> Tail(q), ret |-> Head(q)]

peek_next(q) == IF q # <<>> THEN q[1] ELSE NoTrack

clear(q) == [tracks |-> <<>>, ret |-> Len(q)]

\* index is 0-based, as in Python.
remove_track(q, index) ==
    IF 0 <= index /\ index < Len(q)
    THEN [tracks |-> RemoveAt(q, index + 1), ret |-> q[index + 1]]
    ELSE [tracks |-> q, ret |-> NoTrack]

(***************************************************************************)
(* QueueSpec: the methods of one MusicQueue called in any order, as its    *)
(* clients (the commands, play_next, the background playlist task) may.    *)
(***************************************************************************)
NoOp == [op |-> "none", raised |-> FALSE, n |-> 0, track |-> NoTrack, batch |-> <<>>]

Call(op, raised, n, track, batch) ==
    [op |-> op, raised |-> raised, n |-> n, track |-> track, batch |-> batch]

\* Lists of n freshly constructed playlist tracks, ids from next_id on.
RECURSIVE Batches(_, _)
Batches(id, n) ==
    IF n = 0 THEN {<<>>}
    ELSE {<<t>> \o rest : t \in SpotifyTracks(id), rest \in Batches(id + 1, n - 1)}

Tasks == 1..NTasks

\* A free slot.
IdleTask == [pc |-> "idle", kind |-> "none", track |-> NoTrack,
             ret |-> "None", depth |-> 0, watch |-> "off"]

\* Guilds the bot serves, and the slots of cleanup coroutines.
Guilds == 1..NGuilds

\* An entry of the dict that `del` has emptied.
Hole == [guild |-> 0, player |-> 0]

\* No call of the audio source layer is under way.
NoCall == [fn |-> "none"]

\* The values of the `state` parameter: the strings a caller registers and
\* a request carries, "" among them, and Missing for a request without one
\* (query.get returns None).
Missing == "<none>"
OAuthStates == {"", "a", "b"}

\* No callback request has been answered yet.
NoResponse == [n |-> 0, status |-> 0, state |-> Missing]

\* OAuthCallbackServer.__init__ (oauth_server.py:15-21): no state is
\* pending.
ServerInit ==
    /\ pending_states = [s \in OAuthStates |-> 0]
    /\ futures = <<>>
    /\ response = NoResponse

\* The users of the guild and its voice channels.
Users == {1, 2}
Channels == {1, 2}

\* No on_voice_state_update handler is waiting.
NoHandler == [pc |-> "idle", channel |-> 0]

\* The bot has started (main.py:41-46): nobody is in a voice channel, the
\* bot is in none and no handler runs.
VoiceInit ==
    /\ members = [u \in Users |-> 0]
    /\ channel = 0
    /\ handler = NoHandler

\* MusicBot.__init__ (bot.py:60-64): no voice client and no queue for the
\* guild; nothing has been handed to a transport.
LegacyInit ==
    /\ queues = <<>>
    /\ voice_clients = "None"
    /\ legacy_playback = "none"
    /\ handed = [new |-> <<>>, old |-> <<>>, reached |-> FALSE, rejected |-> FALSE,
                 outside |-> FALSE, skipped |-> FALSE]

\* MusicManager.__init__ (music_player.py:293-295): no player yet, no
\* cleanup running; the other objects of the process as constructed.
ManagerInit ==
    /\ ServerInit
    /\ VoiceInit
    /\ LegacyInit
    /\ players = <<>>
    /\ handles = {}
    /\ next_player = 1
    /\ cleanup = [c \in 1..NCleanups |-> [pc |-> "idle", fn |-> "none", guild |-> 0,
                                          player |-> 0, pos |-> 0, size |-> 0]]
    /\ got = [g \in Guilds |-> 0]

\* MusicPlayer.__init__: no voice client, nothing running.
PlayerInit ==
    /\ ManagerInit
    /\ voice_client = "None"
    /\ connected = FALSE
    /\ playback = "none"
    /\ is_paused = FALSE
    /\ pending = 0
    /\ task = [t \in Tasks |-> IdleTask]
    /\ auto = "idle"

QueueInit ==
    /\ tracks = <<>>
    /\ current_track = NoTrack
    /\ shuffle_mode \in BOOLEAN
    /\ next_id = 1
    /\ last = NoOp
    /\ dequeued = <<>>
    /\ call = NoCall
    /\ PlayerInit

QAddTrack ==
    /\ next_id <= QMaxTracks
    /\ \E t \in NewTracks(next_id) :
         LET r == add_track(tracks, t) IN
         /\ tracks' = r.tracks
         /\ last' = Call("add_track", r.raised, r.ret, t, <<>>)
    /\ next_id' = next_id + 1
    /\ UNCHANGED <<xvars, current_track, shuffle_mode, dequeued, pvars>>

QAddTracks ==
    \E n \in 0..MaxBatch :
      /\ next_id + n - 1 <= QMaxTracks
      /\ \E list \in Batches(next_id, n) :
           LET r == add_tracks(tracks, list) IN
           /\ tracks' = r.tracks
           /\ last' = Call("add_tracks", r.raised, r.ret, NoTrack, list)
      /\ next_id' = next_id + n
      /\ UNCHANGED <<xvars, current_track, shuffle_mode, dequeued, pvars>>

QGetNextTrack ==
    \E choice \in 1..(IF tracks = <<>> THEN 1 ELSE Len(tracks)) :
      LET r == get_next_track(tracks, shuffle_mode, choice) IN
      /\ tracks' = r.tracks
      /\ last' = Call("get_next_track", FALSE, 0, r.ret, <<>>)
      /\ dequeued' = IF r.ret = NoTrack THEN dequeued ELSE Append(dequeued, r.ret.id)
      /\ UNCHANGED <<xvars, current_track, shuffle_mode, next_id, pvars>>

QRemoveTrack ==
    \E index \in -1..Len(tracks) :
      LET r == remove_track(tracks, index) IN
      /\ tracks' = r.tracks
      /\ last' = Call("remove_track", FALSE, index, r.ret, <<>>)
      /\ UNCHANGED <<xvars, current_track, shuffle_mode, next_id, dequeued, pvars>>

QClear ==
    LET r == clear(tracks) IN
    /\ tracks' = r.tracks
    /\ last' = Call("clear", FALSE, r.ret, NoTrack, <<>>)
    /\ UNCHANGED <<xvars, current_track, shuffle_mode, next_id, dequeued, pvars>>

\* The one write to current_track (music_player.py:194): play_next stores
\* the track it dequeued.
QSetCurrent ==
    /\ last.op = "get_next_track"
    /\ last.track # NoTrack
    /\ current_track' = last.track
    /\ last' = Call("set_current_track", FALSE, 0, last.track, <<>>)
    /\ UNCHANGED <<xvars, tracks, shuffle_mode, next_id, dequeued, pvars>>

QueueNext ==
    \/ QAddTrack
    \/ QAddTracks
    \/ QGetNextTrack
    \/ QRemoveTrack
    \/ QClear
    \/ QSetCurrent

QueueSpec == QueueInit /\ [][QueueNext]_vars

(***************************************************************************)
(* MusicPlayer (music_player.py:125-288) driven by the commands and        *)
(* events of main.py: Spec.  One guild, one player.                        *)
(*                                                                         *)
(* A coroutine occupies a slot of `task` from its start to its end; pc is  *)
(* the await it is suspended at:                                           *)
(*   "connect"        voice_channel.connect()        music_player.py:145   *)
(*   "move"           voice_client.move_to()         music_player.py:143   *)
(*   "refused"        ctx.send("Failed to connect")  main.py:72            *)
(*   "lookup"         get_youtube_info / get_track_info /                  *)
(*                    get_first_track_from_playlist  main.py:143,206,237   *)
(*   "added"          thinking_msg.edit              main.py:159,223,259   *)
(*   "resolve"        _resolve_track_url             music_player.py:181   *)
(*   "materialize"    create_audio_source            music_player.py:188   *)
(*   "notify"         _send_now_playing_message      music_player.py:206   *)
(*   "returned"       the outermost play_next has returned `ret` and its   *)
(*                    caller has not run on yet                            *)
(*   "bg_fetch"       get_playlist_info              main.py:174           *)
(*   "disconnecting"  voice_client.disconnect()      music_player.py:157   *)
(* track is play_next's local `track`, depth the number of recursive       *)
(* play_next calls (music_player.py:185,191,212) below the first one, ret  *)
(* the value the outermost call returned.  watch is bookkeeping for the    *)
(* observer: "on" while a call that began on a connected player with       *)
(* nothing but unplayable tracks queued has seen no track added and no     *)
(* disconnect since, "disc" once it has seen a disconnect but no add.      *)
(***************************************************************************)
\* MusicPlayer.is_playing / is_connected.
is_playing == voice_client # "None" /\ playback = "playing"
is_connected == voice_client # "None" /\ connected

\* discord.VoiceClient.play raises when there is no connected handle or a
\* stream is already playing (a paused stream is replaced without error).
PlayRaises == voice_client = "None" \/ ~connected \/ playback = "playing"

\* A play_next call that has dequeued a track and not yet returned.
InFlight(t) == task[t].pc \in {"resolve", "materialize", "notify"}

\* New coroutines take the lowest free slot.
Free(t) == task[t].pc = "idle" /\ \A u \in Tasks : u < t => task[u].pc # "idle"

\* A track was appended to the queue / the player lost its connection or
\* its handle (disconnect() before and after its await).
Added(f) == [u \in Tasks |-> [f[u] EXCEPT !.watch = "off"]]
Disconnected(f) ==
    [u \in Tasks |-> IF f[u].watch = "on" THEN [f[u] EXCEPT !.watch = "disc"] ELSE f[u]]

\* The outermost play_next returns `value`.
Return(rec, value) == [rec EXCEPT !.pc = "returned", !.track = NoTrack, !.ret = value]

\* The caller after play_next, or without calling it: handle_spotify_playlist
\* creates the background task (main.py:166), the other callers end.
Continue(rec) ==
    IF rec.kind = "playlist"
    THEN [IdleTask EXCEPT !.pc = "bg_fetch", !.kind = "bg"]
    ELSE IdleTask

\* A caller invokes play_next (depth 0).
StartCall(rec) ==
    [rec EXCEPT !.ret = "None", !.depth = 0,
                !.watch = IF is_connected /\ \A i \in 1..Len(tracks) : Unplayable(tracks[i])
                          THEN "on" ELSE "off"]

\* music_player.py:174-185 with no resolution needed: the dequeue, and the
\* recursion on a track that neither needs resolution nor has a url.
RECURSIVE Dequeue(_, _)
Dequeue(q, depth) ==
    LET r == get_next_track(q, shuffle_mode, 1) IN
    IF r.ret = NoTrack \/ r.ret.needs_resolution \/ r.ret.url # NoUrl
    THEN [tracks |-> r.tracks, track |-> r.ret, depth |-> depth]
    ELSE Dequeue(r.tracks, depth + 1)

\* play_next taking the next track before it looks at the connection.
play_next_entry_dequeues_first(rec) ==
    LET d == Dequeue(tracks, rec.depth) IN
    IF ~is_connected \/ d.track = NoTrack
    THEN [tracks |-> d.tracks, rec |-> Return([rec EXCEPT !.depth = d.depth], "False")]
    ELSE [tracks |-> d.tracks,
          rec |-> [rec EXCEPT !.pc = IF d.track.needs_resolution
                                     THEN "resolve" ELSE "materialize",
                              !.track = d.track,
                              !.depth = d.depth]]

\* play_next from its first line to its first await or its return
\* (music_player.py:171-188): the new queue and the new state of the caller.
play_next_entry(rec) ==
    IF ~is_connected
    THEN [tracks |-> tracks, rec |-> Return(rec, "False")]
    ELSE LET d == Dequeue(tracks, rec.depth) IN
         IF d.track = NoTrack
         THEN [tracks |-> d.tracks,
               rec |-> Return([rec EXCEPT !.depth = d.depth], "False")]
         ELSE [tracks |-> d.tracks,
               rec |-> [rec EXCEPT !.pc = IF d.track.needs_resolution
                                          THEN "resolve" ELSE "materialize",
                                   !.track = d.track,
                                   !.depth = d.depth]]

\* play_next letting the failure out to its caller.
Recurse_propagates(rec) == [tracks |-> tracks, rec |-> Return(rec, "raised")]

\* play_next giving up at the first track that fails instead of recursing.
Recurse_gives_up(rec) == [tracks |-> tracks, rec |-> Return(rec, "False")]

\* The recursive call `return await self.play_next(ctx)`.
Recurse(rec) == play_next_entry([rec EXCEPT !.depth = @ + 1])

\* _resolve_track_url (music_player.py:214-227): the track after the call.
resolve_track_url(trk) ==
    IF trk.fate = "noresolve"
    THEN trk
    ELSE [trk EXCEPT !.url = IF trk.fate = "nourl" THEN NoUrl ELSE Url,
                     !.needs_resolution = FALSE]

\* current_track set before the source is known to exist.
NowPlaying_before_check(trk) == trk

\* queue.current_track after music_player.py:188-194: written only once a
\* source was made.
NowPlaying(trk) == IF trk.fate = "nosource" THEN current_track ELSE trk

\* pause() as a play/pause toggle.
pause_toggles ==
    IF voice_client # "None" /\ playback \in {"playing", "paused"}
    THEN [playback |-> IF playback = "playing" THEN "paused" ELSE "playing",
          is_paused |-> ~is_paused, ret |-> TRUE]
    ELSE [playback |-> playback, is_paused |-> is_paused, ret |-> FALSE]

\* MusicPlayer.pause (music_player.py:262-268): the transport state and
\* is_paused after the call, and the value returned.
pause ==
    IF is_playing
    THEN [playback |-> "paused", is_paused |-> TRUE, ret |-> TRUE]
    ELSE [playback |-> playback, is_paused |-> is_paused, ret |-> FALSE]

\* MusicPlayer.resume (music_player.py:270-276).
resume ==
    IF voice_client # "None" /\ playback = "paused"
    THEN [playback |-> "playing", is_paused |-> FALSE, ret |-> TRUE]
    ELSE [playback |-> playback, is_paused |-> is_paused, ret |-> FALSE]

\* after_playing scheduling two calls for one completion.
after_playing_twice(error) == IF error THEN pending ELSE pending + 2

\* after_playing advancing whatever the transport reports.
after_playing_always(error) == pending + 1

\* after_playing (music_player.py:196-201): the number of scheduled
\* play_next calls after the callback has run.
after_playing(error) == IF error THEN pending ELSE pending + 1

\* VoiceClient.stop() on the handle: the audio player ends and calls
\* `after` with no error.
StopTransport ==
    /\ playback' = "none"
    /\ pending' = IF playback \in {"playing", "paused"}
                  THEN after_playing(FALSE) ELSE pending

Init ==
    /\ tracks = <<>>
    /\ current_track = NoTrack
    /\ shuffle_mode = FALSE
    /\ next_id = 1
    /\ last = NoOp
    /\ dequeued = <<>>
    /\ call = NoCall
    /\ PlayerInit

\* The play command up to its first await (main.py:77-96, 64-75 and
\* music_player.py:137-145): on a connected player the caller is on the
\* player's channel or on another one.  kind "play" is a YouTube query or a
\* Spotify track, kind "playlist" a Spotify playlist.  Commands start only while
\* the model has track identities left.
PlayCommand(t, kind) ==
    /\ Free(t)
    /\ next_id <= MaxTracks
    /\ \/ /\ is_connected
          /\ \E at \in {"lookup", "move"} :
               task' = [task EXCEPT ![t] = [IdleTask EXCEPT !.pc = at, !.kind = kind]]
       \/ /\ voice_client = "None"
          /\ \A u \in Tasks : task[u].pc # "connect"
          /\ task' = [task EXCEPT ![t] = [IdleTask EXCEPT !.pc = "connect", !.kind = kind]]
    /\ UNCHANGED <<xvars, qvars, next_id, hvars, tvars, is_paused, pending, auto>>

\* A failed connect leaving a dead handle in voice_client.
ConnectDone_keeps_dead_handle(t) ==
    /\ task[t].pc = "connect"
    /\ \/ /\ ~connected
          /\ voice_client' = "vc"
          /\ connected' = TRUE
          /\ playback' = "none"
          /\ task' = [task EXCEPT ![t].pc = "lookup"]
       \/ /\ task' = [task EXCEPT ![t].pc = "refused"]
          /\ voice_client' = "vc"
          /\ UNCHANGED <<xvars, connected, playback>>
    /\ UNCHANGED <<xvars, qvars, next_id, hvars, is_paused, pending, auto>>

\* voice_channel.connect() returns or raises (music_player.py:145-152).
ConnectDone(t) ==
    /\ task[t].pc = "connect"
    /\ \/ /\ ~connected
          /\ voice_client' = "vc"
          /\ connected' = TRUE
          /\ playback' = "none"
          /\ task' = [task EXCEPT ![t].pc = "lookup"]
       \/ /\ task' = [task EXCEPT ![t].pc = "refused"]
          /\ UNCHANGED tvars
    /\ UNCHANGED <<xvars, qvars, next_id, hvars, is_paused, pending, auto>>

\* voice_client.move_to() returns or raises (music_player.py:143-152).
MoveDone(t) ==
    /\ task[t].pc = "move"
    /\ \/ task' = [task EXCEPT ![t].pc = "lookup"]
       \/ task' = [task EXCEPT ![t].pc = "refused"]
    /\ UNCHANGED <<xvars, qvars, next_id, hvars, tvars, is_paused, pending, auto>>

\* ensure_voice_connection has told the user that the connection failed;
\* the play command returns (main.py:72-73, 84-85).
RefusedDone(t) ==
    /\ task[t].pc = "refused"
    /\ task' = [task EXCEPT ![t] = IdleTask]
    /\ UNCHANGED <<xvars, qvars, next_id, hvars, tvars, is_paused, pending, auto>>

\* The lookup returns: nothing found, or a track is built and add_track
\* called (main.py:145-159, 208-223, 239-259).
LookupDone(t) ==
    /\ task[t].pc = "lookup"
    /\ \/ /\ task' = [task EXCEPT ![t] = IdleTask]
          /\ UNCHANGED <<xvars, tracks, next_id>>
       \/ /\ next_id <= MaxTracks
          /\ \E trk \in (IF task[t].kind = "playlist"
                         THEN SpotifyTracks(next_id) ELSE NewTracks(next_id)) :
               LET r == add_track(tracks, trk) IN
               /\ tracks' = r.tracks
               /\ task' = IF r.raised
                          THEN [task EXCEPT ![t] = IdleTask]
                          ELSE Added([task EXCEPT ![t].pc = "added"])
          /\ next_id' = next_id + 1
    /\ UNCHANGED <<xvars, current_track, shuffle_mode, hvars, tvars, is_paused, pending, auto>>

\* `if not player.is_playing(): await player.play_next(ctx)`
\* (main.py:162-166, 225-226, 261-262).
AddedDone(t) ==
    /\ task[t].pc = "added"
    /\ IF is_playing
       THEN /\ task' = [task EXCEPT ![t] = Continue(task[t])]
            /\ UNCHANGED tracks
       ELSE LET r == play_next_entry(StartCall(task[t])) IN
            /\ tracks' = r.tracks
            /\ task' = [task EXCEPT ![t] = r.rec]
    /\ UNCHANGED <<xvars, current_track, shuffle_mode, next_id, hvars, tvars, is_paused,
                   pending, auto>>

\* _resolve_track_url returns (music_player.py:181-188).
ResolveDone(t) ==
    /\ task[t].pc = "resolve"
    /\ LET trk == resolve_track_url(task[t].track) IN
       IF trk.url = NoUrl
       THEN LET r == Recurse(task[t]) IN
            /\ tracks' = r.tracks
            /\ task' = [task EXCEPT ![t] = r.rec]
       ELSE /\ task' = [task EXCEPT ![t].pc = "materialize", ![t].track = trk]
            /\ UNCHANGED tracks
    /\ UNCHANGED <<xvars, current_track, shuffle_mode, next_id, hvars, tvars, is_paused,
                   pending, auto>>

\* create_audio_source returns (music_player.py:188-212): no source, or
\* current_track is set and the source handed to voice_client.play, which
\* may raise into the `except` of play_next.
MaterializeDone(t) ==
    /\ task[t].pc = "materialize"
    /\ LET trk == task[t].track IN
       IF trk.fate = "nosource"
       THEN LET r == Recurse(task[t]) IN
            /\ tracks' = r.tracks
            /\ task' = [task EXCEPT ![t] = r.rec]
            /\ current_track' = NowPlaying(trk)
            /\ UNCHANGED playback
       ELSE /\ current_track' = NowPlaying(trk)
            /\ IF PlayRaises
               THEN LET r == Recurse(task[t]) IN
                    /\ tracks' = r.tracks
                    /\ task' = [task EXCEPT ![t] = r.rec]
                    /\ UNCHANGED playback
               ELSE /\ playback' = "playing"
                    /\ task' = [task EXCEPT ![t].pc = "notify"]
                    /\ UNCHANGED tracks
    /\ UNCHANGED <<xvars, shuffle_mode, next_id, hvars, voice_client, connected, is_paused,
                   pending, auto>>

\* The now-playing message is sent; play_next returns True
\* (music_player.py:206-208).
NotifyDone(t) ==
    /\ task[t].pc = "notify"
    /\ task' = [task EXCEPT ![t] = Return(task[t], "True")]
    /\ UNCHANGED <<xvars, qvars, next_id, hvars, tvars, is_paused, pending, auto>>

\* The caller of the outermost play_next runs on (main.py:163-166, 226, 262;
\* a call scheduled by after_playing has no caller).
CallerResumes(t) ==
    /\ task[t].pc = "returned"
    /\ task' = [task EXCEPT ![t] = Continue(task[t])]
    /\ UNCHANGED <<xvars, qvars, next_id, hvars, tvars, is_paused, pending, auto>>

\* The stream ends by itself and the audio thread calls after_playing
\* (music_player.py:196-201): with an error it only logs, without one it
\* schedules play_next on the loop.
TrackEnds ==
    /\ playback = "playing"
    /\ \E error \in BOOLEAN :
         /\ playback' = IF error THEN "failed" ELSE "none"
         /\ pending' = after_playing(error)
    /\ UNCHANGED <<xvars, qvars, next_id, hvars, voice_client, connected, is_paused, task, auto>>

\* A play_next scheduled by after_playing starts on the loop
\* (music_player.py:201).
ScheduledPlayNext(t) ==
    /\ pending > 0
    /\ Free(t)
    /\ pending' = pending - 1
    /\ LET r == play_next_entry(StartCall([IdleTask EXCEPT !.kind = "after"])) IN
       /\ tracks' = r.tracks
       /\ task' = [task EXCEPT ![t] = r.rec]
    /\ UNCHANGED <<xvars, current_track, shuffle_mode, next_id, hvars, tvars, is_paused, auto>>

\* skip forgetting the track it stopped.
SkipCommand_clears_current ==
    /\ is_connected
    /\ playback \in {"playing", "paused"}
    /\ StopTransport
    /\ is_paused' = FALSE
    /\ current_track' = NoTrack
    /\ UNCHANGED <<xvars, tracks, shuffle_mode, next_id, hvars, voice_client, connected,
                   task, auto>>

\* The skip command (main.py:267-279) on a playing or paused player:
\* MusicPlayer.skip is MusicPlayer.stop (music_player.py:278-288).
SkipCommand ==
    /\ is_connected
    /\ playback \in {"playing", "paused"}
    /\ StopTransport
    /\ is_paused' = FALSE
    /\ UNCHANGED <<xvars, qvars, next_id, hvars, voice_client, connected, task, auto>>

\* The pause command (main.py:281-289, music_player.py:262-268) when it has
\* an effect; the call that returns False changes nothing.
PauseCommand ==
    /\ pause.ret
    /\ playback' = pause.playback
    /\ is_paused' = pause.is_paused
    /\ UNCHANGED <<xvars, qvars, next_id, hvars, voice_client, connected, pending, task, auto>>

\* The resume command (main.py:291-299, music_player.py:270-276) when it has
\* an effect.
ResumeCommand ==
    /\ resume.ret
    /\ playback' = resume.playback
    /\ is_paused' = resume.is_paused
    /\ UNCHANGED <<xvars, qvars, next_id, hvars, voice_client, connected, pending, task, auto>>

\* The clear command (main.py:359-368).
ClearCommand ==
    /\ tracks # <<>>
    /\ tracks' = clear(tracks).tracks
    /\ UNCHANGED <<xvars, current_track, shuffle_mode, next_id, hvars, pvars>>

\* The stop command up to its await (main.py:301-309): stop, clear, and
\* disconnect as far as `await self.voice_client.disconnect()`.
StopCommand(t) ==
    /\ Free(t)
    /\ is_connected
    /\ StopTransport
    /\ is_paused' = IF playback \in {"playing", "paused"} THEN FALSE ELSE is_paused
    /\ tracks' = clear(tracks).tracks
    /\ connected' = FALSE
    /\ task' = Disconnected([task EXCEPT ![t] =
                   [IdleTask EXCEPT !.pc = "disconnecting", !.kind = "stop"]])
    /\ UNCHANGED <<xvars, current_track, shuffle_mode, next_id, hvars, voice_client, auto>>

\* disconnect() after its await: the handle is dropped (music_player.py:158).
DisconnectDone(t) ==
    /\ task[t].pc = "disconnecting"
    /\ voice_client' = "None"
    /\ task' = Disconnected([task EXCEPT ![t] = IdleTask])
    /\ UNCHANGED <<xvars, qvars, next_id, hvars, connected, playback, is_paused, pending, auto>>

\* on_voice_state_update, the bot alone on the player's channel before and
\* after the 60 s wait (main.py:55-61): the handler calls
\* player.disconnect(), which runs to its await (music_player.py:156-157).
AutoDisconnectFire ==
    /\ auto = "idle"
    /\ voice_client # "None"
    /\ StopTransport
    /\ connected' = FALSE
    /\ task' = Disconnected(task)
    /\ auto' = "disconnecting"
    /\ UNCHANGED <<xvars, qvars, next_id, hvars, voice_client, is_paused>>

\* disconnect() also emptying the queue as it drops the handle.
AutoDisconnectDone_clears ==
    /\ auto = "disconnecting"
    /\ voice_client' = "None"
    /\ auto' = "idle"
    /\ tracks' = clear(tracks).tracks
    /\ task' = Disconnected(task)
    /\ UNCHANGED <<xvars, current_track, shuffle_mode, next_id, hvars, connected, playback,
                   is_paused, pending>>

\* The handler's disconnect() after its await (music_player.py:158).
AutoDisconnectDone ==
    /\ auto = "disconnecting"
    /\ voice_client' = "None"
    /\ auto' = "idle"
    /\ task' = Disconnected(task)
    /\ UNCHANGED <<xvars, qvars, next_id, hvars, connected, playback, is_paused, pending>>

\* process_spotify_playlist_background after get_playlist_info
\* (main.py:174-186): the remaining tracks are built and handed to
\* add_tracks; n = 0 is a failed fetch or a playlist of one track.
BackgroundDone(t) ==
    /\ task[t].pc = "bg_fetch"
    /\ \E n \in 0..MaxBatch :
         /\ next_id + n - 1 <= MaxTracks
         /\ \E list \in Batches(next_id, n) :
              LET r == add_tracks(tracks, list) IN
              /\ tracks' = r.tracks
              /\ task' = IF r.ret > 0
                         THEN Added([task EXCEPT ![t] = IdleTask])
                         ELSE [task EXCEPT ![t] = IdleTask]
         /\ next_id' = next_id + n
    /\ UNCHANGED <<xvars, current_track, shuffle_mode, hvars, tvars, is_paused, pending, auto>>

Next ==
    \/ \E t \in Tasks : \E kind \in {"play", "playlist"} : PlayCommand(t, kind)
    \/ \E t \in Tasks : ConnectDone(t)
    \/ \E t \in Tasks : MoveDone(t)
    \/ \E t \in Tasks : RefusedDone(t)
    \/ \E t \in Tasks : LookupDone(t)
    \/ \E t \in Tasks : AddedDone(t)
    \/ \E t \in Tasks : ResolveDone(t)
    \/ \E t \in Tasks : MaterializeDone(t)
    \/ \E t \in Tasks : NotifyDone(t)
    \/ \E t \in Tasks : CallerResumes(t)
    \/ \E t \in Tasks : ScheduledPlayNext(t)
    \/ \E t \in Tasks : StopCommand(t)
    \/ \E t \in Tasks : DisconnectDone(t)
    \/ \E t \in Tasks : BackgroundDone(t)
    \/ TrackEnds
    \/ SkipCommand
    \/ PauseCommand
    \/ ResumeCommand
    \/ ClearCommand
    \/ AutoDisconnectFire
    \/ AutoDisconnectDone

Spec == Init /\ [][Next]_vars

\* StopSpec: the player without the auto-disconnect handler, so that the
\* stop command is the only way the player loses its voice client.
StopNext ==
    \/ \E t \in Tasks : \E kind \in {"play", "playlist"} : PlayCommand(t, kind)
    \/ \E t \in Tasks : ConnectDone(t)
    \/ \E t \in Tasks : MoveDone(t)
    \/ \E t \in Tasks : RefusedDone(t)
    \/ \E t \in Tasks : LookupDone(t)
    \/ \E t \in Tasks : AddedDone(t)
    \/ \E t \in Tasks : ResolveDone(t)
    \/ \E t \in Tasks : MaterializeDone(t)
    \/ \E t \in Tasks : NotifyDone(t)
    \/ \E t \in Tasks : CallerResumes(t)
    \/ \E t \in Tasks : ScheduledPlayNext(t)
    \/ \E t \in Tasks : StopCommand(t)
    \/ \E t \in Tasks : DisconnectDone(t)
    \/ \E t \in Tasks : BackgroundDone(t)
    \/ TrackEnds
    \/ SkipCommand
    \/ PauseCommand
    \/ ResumeCommand
    \/ ClearCommand

StopSpec == Init /\ [][StopNext]_vars

\* The player after MaxTracks - FairTracks tracks have come and gone, each
\* queued by a play command and cleared before it played, and the player
\* disconnected again: a state Spec reaches, in which everything but the
\* count of tracks made is as in Init.
FairInit ==
    /\ tracks = <<>>
    /\ current_track = NoTrack
    /\ shuffle_mode = FALSE
    /\ next_id = MaxTracks - FairTracks + 1
    /\ last = NoOp
    /\ dequeued = <<>>
    /\ call = NoCall
    /\ PlayerInit

\* The event loop runs every coroutine whose await has completed, and the
\* resolver, the materializer and the message send complete.  FairSpec
\* follows the behaviours of Spec from FairInit on.
FairSpec ==
    /\ FairInit
    /\ [][Next]_vars
    /\ \A t \in Tasks :
         WF_vars(ResolveDone(t) \/ MaterializeDone(t) \/ NotifyDone(t))

(***************************************************************************)
(* ControlSpec: pause(), resume(), play_next() and the background playlist *)
(* task run in every state of the player, the calls that return False      *)
(* included.  The rest of the player is run without its awaits: a command  *)
(* connects, queues a track, play_next dequeues and starts it, the stream  *)
(* ends, the player disconnects.  Every step records what it was in        *)
(* `last`.                                                                 *)
(***************************************************************************)
Did(op, ret) == [op |-> op, ret |-> ret]

\* connect_to_voice succeeding (music_player.py:145).
CtlConnect ==
    /\ ~connected
    /\ voice_client' = "vc"
    /\ connected' = TRUE
    /\ playback' = "none"
    /\ last' = Did("connect", TRUE)
    /\ UNCHANGED <<xvars, qvars, next_id, dequeued, is_paused, pending, task, auto>>

\* A play command queues a YouTube track (main.py:243-251) or a Spotify
\* track (main.py:150-157, 212-215).
CtlAdd ==
    /\ next_id <= QMaxTracks
    /\ \E trk \in {from_youtube(next_id, Url, "ok"), from_spotify(next_id, "ok")} :
         LET r == add_track(tracks, trk) IN
         /\ tracks' = r.tracks
         /\ last' = Did("add_track", ~r.raised)
    /\ next_id' = next_id + 1
    /\ UNCHANGED <<xvars, current_track, shuffle_mode, dequeued, pvars>>

\* play_next starting the head of the queue (music_player.py:171-203); on
\* a paused transport the new stream replaces the paused one.
CtlPlayNext ==
    /\ is_connected
    /\ tracks # <<>>
    /\ ~PlayRaises
    /\ LET r == get_next_track(tracks, shuffle_mode, 1) IN
       /\ tracks' = r.tracks
       /\ current_track' = IF r.ret.needs_resolution
                           THEN resolve_track_url(r.ret) ELSE r.ret
    /\ playback' = "playing"
    /\ last' = Did("play_next", TRUE)
    /\ UNCHANGED <<xvars, shuffle_mode, next_id, dequeued, voice_client, connected,
                   is_paused, pending, task, auto>>

\* play_next where it returns False at once (music_player.py:171-176): the
\* player is not connected, or the queue is empty.
CtlPlayNextRefused ==
    LET r == play_next_entry(IdleTask) IN
    /\ r.rec.pc = "returned"
    /\ tracks' = r.tracks
    /\ last' = Did("play_next", r.rec.ret = "True")
    /\ UNCHANGED <<xvars, current_track, shuffle_mode, next_id, dequeued, pvars>>

\* The background playlist task stopping the player when its fetch fails.
CtlBackgroundFails_stops ==
    /\ playback' = "none"
    /\ last' = Did("background_failed", FALSE)
    /\ UNCHANGED <<xvars, qvars, next_id, dequeued, voice_client, connected,
                   is_paused, pending, task, auto>>

\* process_spotify_playlist_background when get_playlist_info raises or
\* returns no tracks (main.py:173-177, 201-202): the task logs or returns.
CtlBackgroundFails ==
    /\ last' = Did("background_failed", FALSE)
    /\ UNCHANGED <<xvars, qvars, next_id, dequeued, pvars>>

\* The background playlist task putting the first of its tracks on as the
\* current one.
CtlBackground_restarts ==
    \E n \in 1..MaxBatch :
      /\ next_id + n - 1 <= QMaxTracks
      /\ LET list == [i \in 1..n |-> from_spotify(next_id + i - 1, "ok")]
             r == add_tracks(tracks, list) IN
         /\ tracks' = r.tracks
         /\ current_track' = list[1]
         /\ last' = Did("background", r.ret > 0)
      /\ next_id' = next_id + n
      /\ UNCHANGED <<xvars, shuffle_mode, dequeued, pvars>>

\* process_spotify_playlist_background with the playlist fetched
\* (main.py:179-186): the tracks after the first are built and handed to
\* add_tracks.
CtlBackground ==
    \E n \in 1..MaxBatch :
      /\ next_id + n - 1 <= QMaxTracks
      /\ LET list == [i \in 1..n |-> from_spotify(next_id + i - 1, "ok")]
             r == add_tracks(tracks, list) IN
         /\ tracks' = r.tracks
         /\ last' = Did("background", r.ret > 0)
      /\ next_id' = next_id + n
      /\ UNCHANGED <<xvars, current_track, shuffle_mode, dequeued, pvars>>

\* The stream ends, cleanly or with an error; the play_next that the
\* callback schedules is a later CtlPlayNext.
CtlEnd ==
    /\ playback = "playing"
    /\ \E error \in BOOLEAN :
         /\ playback' = IF error THEN "failed" ELSE "none"
         /\ last' = Did("after_playing", ~error)
    /\ UNCHANGED <<xvars, qvars, next_id, dequeued, voice_client, connected,
                   is_paused, pending, task, auto>>

\* MusicPlayer.disconnect (music_player.py:154-159).
CtlDisconnect ==
    /\ voice_client # "None"
    /\ voice_client' = "None"
    /\ connected' = FALSE
    /\ playback' = "none"
    /\ last' = Did("disconnect", TRUE)
    /\ UNCHANGED <<xvars, qvars, next_id, dequeued, is_paused, pending, task, auto>>

\* The pause command in any state (main.py:281-289).
CtlPause ==
    /\ playback' = pause.playback
    /\ is_paused' = pause.is_paused
    /\ last' = Did("pause", pause.ret)
    /\ UNCHANGED <<xvars, qvars, next_id, dequeued, voice_client, connected, pending,
                   task, auto>>

\* The resume command in any state (main.py:291-299).
CtlResume ==
    /\ playback' = resume.playback
    /\ is_paused' = resume.is_paused
    /\ last' = Did("resume", resume.ret)
    /\ UNCHANGED <<xvars, qvars, next_id, dequeued, voice_client, connected, pending,
                   task, auto>>

ControlNext ==
    \/ CtlConnect
    \/ CtlAdd
    \/ CtlPlayNext
    \/ CtlPlayNextRefused
    \/ CtlBackground
    \/ CtlBackgroundFails
    \/ CtlEnd
    \/ CtlDisconnect
    \/ CtlPause
    \/ CtlResume

ControlSpec == Init /\ [][ControlNext]_vars

(***************************************************************************)
(* MusicManager (music_player.py:290-313): ManagerSpec.  Commands of any   *)
(* guild call get_player and connect the player they got; cleanup_player   *)
(* and cleanup_all run as coroutines that are suspended in                 *)
(* `await player.disconnect()` while other coroutines run.                 *)
(*                                                                         *)
(* players is the entry table of the dict: a new key is appended, `del`    *)
(* leaves a hole where the entry was, clear() empties the table.  The      *)
(* table of a dict this small holds five entries before it is rebuilt, and *)
(* at most MaxPlayers entries are ever appended.  An iterator over the     *)
(* dict remembers the number of live entries it started with and its       *)
(* position in the table, and raises RuntimeError from its next step once  *)
(* the number of live entries has changed.                                 *)
(***************************************************************************)
Entry(g, p) == [guild |-> g, player |-> p]

Registered(d, g) == \E i \in 1..Len(d) : d[i].guild = g

PlayerOf(d, g) == d[CHOOSE i \in 1..Len(d) : d[i].guild = g].player

\* len(self.players)
Used(d) == Cardinality({i \in 1..Len(d) : d[i] # Hole})

\* del self.players[g]
Del(d, g) == [i \in 1..Len(d) |-> IF d[i].guild = g THEN Hole ELSE d[i]]

\* What a manager step records in `last`.
MDid(op, g, ret, again) == [op |-> op, guild |-> g, ret |-> ret, again |-> again]

\* get_player constructing a player on every call.
get_player_fresh(d, g) ==
    [players |-> Append(Del(d, g), Entry(g, next_player)), ret |-> next_player]

\* get_player (music_player.py:297-301): the dict and the player returned.
get_player(d, g) ==
    IF Registered(d, g)
    THEN [players |-> d, ret |-> PlayerOf(d, g)]
    ELSE [players |-> Append(d, Entry(g, next_player)), ret |-> next_player]

\* A command of guild g calls get_player (main.py:70, 90, 270, ...).
GetPlayer(g) ==
    /\ Registered(players, g) \/ next_player <= MaxPlayers
    /\ LET r == get_player(players, g) IN
       /\ players' = r.players
       /\ next_player' = IF r.ret = next_player THEN next_player + 1 ELSE next_player
       /\ got' = [got EXCEPT ![g] = r.ret]
       /\ last' = MDid("get_player", g, r.ret, got[g] # 0)
    /\ UNCHANGED <<qvars, next_id, dequeued, pvars, handles, cleanup, call, ovars, avars, lvars>>

\* The player registered for guild g connects to voice
\* (music_player.py:145).
Connect(g) ==
    /\ Registered(players, g)
    /\ PlayerOf(players, g) \notin handles
    /\ handles' = handles \cup {PlayerOf(players, g)}
    /\ last' = MDid("connect", g, "None", FALSE)
    /\ UNCHANGED <<qvars, next_id, dequeued, pvars, players, next_player, cleanup,
                   got, call, ovars, avars, lvars>>

NoCleanup == [pc |-> "idle", fn |-> "none", guild |-> 0, player |-> 0,
              pos |-> 0, size |-> 0]

Cleanups == 1..NCleanups

\* cleanup_player(g) up to its await or its end (music_player.py:303-307
\* and 154-157): a player without a voice client is removed at once.
CleanupPlayerCall(c, g) ==
    /\ cleanup[c].pc = "idle"
    /\ got' = [got EXCEPT ![g] = 0]
    /\ IF ~Registered(players, g)
       THEN /\ last' = MDid("cleanup_player", g, "None", FALSE)
            /\ UNCHANGED <<players, cleanup>>
       ELSE IF PlayerOf(players, g) \in handles
       THEN /\ cleanup' = [cleanup EXCEPT ![c] =
                             [NoCleanup EXCEPT !.pc = "disconnecting",
                                               !.fn = "cleanup_player",
                                               !.guild = g,
                                               !.player = PlayerOf(players, g)]]
            /\ last' = MDid("cleanup_player", g, "await", FALSE)
            /\ UNCHANGED players
       ELSE /\ players' = Del(players, g)
            /\ last' = MDid("cleanup_player", g, "None", FALSE)
            /\ UNCHANGED cleanup
    /\ UNCHANGED <<qvars, next_id, dequeued, pvars, handles, next_player, call, ovars, avars, lvars>>

\* cleanup_player after its await (music_player.py:158 and 307): the
\* handle is dropped and the key deleted; `del` of a key that is no longer
\* there raises KeyError.
CleanupPlayerDone(c) ==
    /\ cleanup[c].pc = "disconnecting"
    /\ cleanup[c].fn = "cleanup_player"
    /\ handles' = handles \ {cleanup[c].player}
    /\ cleanup' = [cleanup EXCEPT ![c] = NoCleanup]
    /\ got' = [got EXCEPT ![cleanup[c].guild] = 0]
    /\ IF Registered(players, cleanup[c].guild)
       THEN /\ players' = Del(players, cleanup[c].guild)
            /\ last' = MDid("cleanup_player", cleanup[c].guild, "None", FALSE)
       ELSE /\ last' = MDid("cleanup_player", cleanup[c].guild, "KeyError", FALSE)
            /\ UNCHANGED players
    /\ UNCHANGED <<qvars, next_id, dequeued, pvars, next_player, call, ovars, avars, lvars>>

\* The loop of cleanup_all (music_player.py:311-312) from one step of the
\* iterator to the next await or to the end of the loop: players without a
\* voice client are passed without an await (music_player.py:156).
RECURSIVE Sweep(_, _, _, _)
Sweep(d, h, pos, size) ==
    IF Used(d) # size
    THEN [pc |-> "raised", pos |-> pos, player |-> 0]
    ELSE IF pos > Len(d)
    THEN [pc |-> "end", pos |-> pos, player |-> 0]
    ELSE IF d[pos] = Hole \/ d[pos].player \notin h
    THEN Sweep(d, h, pos + 1, size)
    ELSE [pc |-> "disconnecting", pos |-> pos + 1, player |-> d[pos].player]

\* cleanup_all going on from a step of its loop: suspended in the next
\* disconnect, or raising out of the loop, or past it and clearing the dict
\* (music_player.py:313).
CleanupAllRuns(c, h, pos, size) ==
    LET r == Sweep(players, h, pos, size) IN
    /\ handles' = h
    /\ got' = [g \in Guilds |-> 0]
    /\ cleanup' = [cleanup EXCEPT ![c] =
                     IF r.pc = "disconnecting"
                     THEN [NoCleanup EXCEPT !.pc = "disconnecting",
                                            !.fn = "cleanup_all",
                                            !.player = r.player,
                                            !.pos = r.pos,
                                            !.size = size]
                     ELSE NoCleanup]
    /\ players' = IF r.pc = "end" THEN <<>> ELSE players
    /\ last' = MDid("cleanup_all", 0,
                    CASE r.pc = "disconnecting" -> "await"
                      [] r.pc = "end" -> "None"
                      [] OTHER -> "RuntimeError",
                    FALSE)
    /\ UNCHANGED <<qvars, next_id, dequeued, pvars, next_player, call, ovars, avars, lvars>>

\* on_disconnect calls cleanup_all (main.py:480-482).
CleanupAllCall(c) ==
    /\ cleanup[c].pc = "idle"
    /\ CleanupAllRuns(c, handles, 1, Used(players))

\* cleanup_all after an await (music_player.py:158, then 311).
CleanupAllDone(c) ==
    /\ cleanup[c].pc = "disconnecting"
    /\ cleanup[c].fn = "cleanup_all"
    /\ CleanupAllRuns(c, handles \ {cleanup[c].player}, cleanup[c].pos, cleanup[c].size)

ManagerNext ==
    \/ \E g \in Guilds : GetPlayer(g)
    \/ \E g \in Guilds : Connect(g)
    \/ \E c \in Cleanups : \E g \in Guilds : CleanupPlayerCall(c, g)
    \/ \E c \in Cleanups : CleanupPlayerDone(c)
    \/ \E c \in Cleanups : CleanupAllCall(c)
    \/ \E c \in Cleanups : CleanupAllDone(c)

ManagerSpec == Init /\ [][ManagerNext]_vars

(***************************************************************************)
(* The audio source layer (audio_source.py) and the Track constructors as  *)
(* the commands call them: SourceSpec.  One call is followed from its      *)
(* inputs to its result.  What the extractor will answer is part of the    *)
(* input: `outcomes` holds, for each strategy of get_youtube_info or each  *)
(* attempt of create_audio_source, how that extraction ends:               *)
(*   "info"     a result without an 'entries' key                          *)
(*   "entries"  a search result whose first entry is a result              *)
(*   "empty"    a search result with no entries                            *)
(*   "source"   YTDLSource.from_url returns a source                       *)
(*   "bot"      an exception whose text is classified as bot detection     *)
(*   "error"    any other exception                                        *)
(* For from_youtube the input is the info dict of the lookup, of which     *)
(* only the presence of 'webpage_url' and 'url' matters; for from_spotify  *)
(* it is the fate of the track's later resolution.                         *)
(***************************************************************************)
StrategyOutcomes == {"info", "entries", "empty", "bot", "error"}
AttemptOutcomes == {"source", "bot", "error"}

\* len(strategies) (audio_source.py:22-27) and max_retries (78).
NStrategies == 2
max_retries == 3

SourceCall(fn, outcomes, info) ==
    [fn |-> fn, outcomes |-> outcomes, info |-> info, pc |-> "run", i |-> 1,
     tried |-> 0, delays |-> <<>>, result |-> "pending", track |-> NoTrack]

NoInfo == [webpage_url |-> FALSE, url |-> FALSE]

SourceCalls ==
    {SourceCall("get_youtube_info", o, NoInfo) : o \in [1..NStrategies -> StrategyOutcomes]}
    \cup {SourceCall("create_audio_source", o, NoInfo) : o \in [1..max_retries -> AttemptOutcomes]}
    \cup {SourceCall("from_youtube", <<>>, i) : i \in [webpage_url : BOOLEAN, url : BOOLEAN]}
    \cup {SourceCall("from_spotify", <<f>>, NoInfo) : f \in {"ok", "noresolve", "nourl"}}

SourceInit ==
    /\ tracks = <<>>
    /\ current_track = NoTrack
    /\ shuffle_mode = FALSE
    /\ next_id = 1
    /\ last = NoOp
    /\ dequeued = <<>>
    /\ PlayerInit
    /\ call \in SourceCalls

\* The backoff starting at two seconds.
Backoff_from_two(attempt) == 2 ^ (attempt + 1)

\* 2 ** attempt for the (zero-based) attempt of the loop.
Backoff(attempt) == 2 ^ attempt

\* One pass of the loop of get_youtube_info (audio_source.py:29-54): the
\* strategy has ended as `outcome`; "return" leaves the function with the
\* result, "next" goes on to the next strategy.
strategy_done(i, outcome) ==
    CASE outcome \in {"info", "entries"} -> [to |-> "return", result |-> "info"]
      [] outcome = "empty" -> [to |-> "next", result |-> "pending"]
      [] outcome = "bot" -> [to |-> "next", result |-> "pending"]
      [] OTHER -> IF i = NStrategies
                  THEN [to |-> "return", result |-> "None"]
                  ELSE [to |-> "next", result |-> "pending"]

\* A strategy of get_youtube_info ends (audio_source.py:33-56); after the
\* last one the function returns None.
StrategyDone ==
    /\ call.fn = "get_youtube_info"
    /\ call.pc = "run"
    /\ LET r == strategy_done(call.i, call.outcomes[call.i]) IN
       call' = IF r.to = "return"
               THEN [call EXCEPT !.pc = "done", !.tried = @ + 1, !.result = r.result]
               ELSE IF call.i = NStrategies
               THEN [call EXCEPT !.pc = "done", !.tried = @ + 1, !.result = "None"]
               ELSE [call EXCEPT !.i = @ + 1, !.tried = @ + 1]
    /\ UNCHANGED <<qvars, next_id, hvars, pvars, mvars, ovars, avars, lvars>>

\* One pass of the loop of create_audio_source (audio_source.py:79-92):
\* attempt (zero-based) has ended as `outcome`; "sleep" is the backoff
\* before the next attempt, "next" the next attempt at once.
attempt_done(attempt, outcome) ==
    CASE outcome = "source" -> [to |-> "return", result |-> "source"]
      [] outcome = "bot" /\ attempt < max_retries - 1 -> [to |-> "sleep", result |-> "pending"]
      [] OTHER -> IF attempt = max_retries - 1
                  THEN [to |-> "return", result |-> "None"]
                  ELSE [to |-> "next", result |-> "pending"]

\* An attempt of create_audio_source ends (audio_source.py:82-92).
AttemptDone ==
    /\ call.fn = "create_audio_source"
    /\ call.pc = "run"
    /\ LET r == attempt_done(call.i - 1, call.outcomes[call.i]) IN
       call' = CASE r.to = "return" ->
                      [call EXCEPT !.pc = "done", !.tried = @ + 1, !.result = r.result]
                 [] r.to = "sleep" ->
                      [call EXCEPT !.pc = "sleep", !.tried = @ + 1,
                                   !.delays = Append(@, Backoff(call.i - 1))]
                 [] OTHER -> [call EXCEPT !.i = @ + 1, !.tried = @ + 1]
    /\ UNCHANGED <<qvars, next_id, hvars, pvars, mvars, ovars, avars, lvars>>

\* asyncio.sleep(2 ** attempt) is over (audio_source.py:88-89).
BackoffDone ==
    /\ call.fn = "create_audio_source"
    /\ call.pc = "sleep"
    /\ call' = [call EXCEPT !.pc = "run", !.i = @ + 1]
    /\ UNCHANGED <<qvars, next_id, hvars, pvars, mvars, ovars, avars, lvars>>

\* youtube_data.get('webpage_url') or youtube_data.get('url')
\* (main.py:245, music_player.py:221).
InfoUrl(info) == IF info.webpage_url \/ info.url THEN Url ELSE NoUrl

\* handle_youtube_content builds the track from the info dict it looked up
\* (main.py:243-248).
ConstructYoutube ==
    /\ call.fn = "from_youtube"
    /\ call.pc = "run"
    /\ call' = [call EXCEPT !.pc = "done", !.result = "track",
                            !.track = from_youtube(1, InfoUrl(call.info), "ok")]
    /\ UNCHANGED <<qvars, next_id, hvars, pvars, mvars, ovars, avars, lvars>>

\* handle_spotify_track builds the track (main.py:212); the outcome is
\* what its later resolution will find.
ConstructSpotify ==
    /\ call.fn = "from_spotify"
    /\ call.pc = "run"
    /\ call' = [call EXCEPT !.pc = "built", !.result = "track",
                            !.track = from_spotify(1, call.outcomes[1])]
    /\ UNCHANGED <<qvars, next_id, hvars, pvars, mvars, ovars, avars, lvars>>

\* play_next resolves the Spotify track (music_player.py:180-181).
ResolveConstructed ==
    /\ call.fn = "from_spotify"
    /\ call.pc = "built"
    /\ call' = [call EXCEPT !.pc = "done", !.track = resolve_track_url(@)]
    /\ UNCHANGED <<qvars, next_id, hvars, pvars, mvars, ovars, avars, lvars>>

SourceNext ==
    \/ StrategyDone
    \/ AttemptDone
    \/ BackoffDone
    \/ ConstructYoutube
    \/ ConstructSpotify
    \/ ResolveConstructed

SourceSpec == SourceInit /\ [][SourceNext]_vars

(***************************************************************************)
(* PlaylistSpec: one Spotify playlist command (main.py:140-202) on a       *)
(* connected player, from its first fetch to the end of its background     *)
(* task, while other play commands queue tracks and the streams that end   *)
(* make play_next take the head of the queue.  `call` holds the command:   *)
(*   n            the number of tracks of the playlist                     *)
(*   free         the free slots of the queue when the command began       *)
(*   queued       the playlist positions handed to the queue and accepted, *)
(*                in the order they were appended                          *)
(*   launched_at  Len(queued) when create_task ran, -1 before              *)
(*   fetched      get_playlist_info returned the tracks                    *)
(*   room         the free slots when add_tracks was called, -1 before     *)
(***************************************************************************)
\* Config.MAX_PLAYLIST_SIZE, the `limit` of the fetch (spotify_auth.py:201).
MAX_PLAYLIST_SIZE == 2
\* The longest playlist, and the number of Track objects made.
MaxPlaylist == 3
PlMaxTracks == 5

PlaylistCall(fn, n, free) ==
    [fn |-> fn, n |-> n, free |-> free, pc |-> IF fn = "none" THEN "idle" ELSE "first",
     queued |-> <<>>, launched_at |-> -1, fetched |-> FALSE, room |-> -1]

\* The player is connected (the play command has seen to that,
\* main.py:84-85); nothing is queued and no playlist command runs.
PlaylistInit ==
    /\ tracks = <<>>
    /\ current_track = NoTrack
    /\ shuffle_mode = FALSE
    /\ next_id = 1
    /\ last = NoOp
    /\ dequeued = <<>>
    /\ ManagerInit
    /\ voice_client = "vc"
    /\ connected = TRUE
    /\ playback = "none"
    /\ is_paused = FALSE
    /\ pending = 0
    /\ task = [t \in Tasks |-> IdleTask]
    /\ auto = "idle"
    /\ call = PlaylistCall("none", 0, 0)

\* A play command of a playlist reaches handle_spotify_playlist and awaits
\* get_first_track_from_playlist (main.py:140-143).
PlaylistCommand ==
    /\ call.fn = "none"
    /\ \E n \in 0..MaxPlaylist :
         call' = PlaylistCall("handle_spotify_playlist", n,
                              MAX_QUEUE_SIZE - Len(tracks))
    /\ UNCHANGED <<qvars, next_id, hvars, pvars, mvars, ovars, avars, lvars>>

\* The first fetch returns (spotify_auth.py:229-256): None for an empty
\* playlist or a failed request, and the command ends (main.py:145-147);
\* else the first track is built and add_track called, which raises when
\* the queue is full (main.py:150-157, 168-169).
PlaylistFirst ==
    /\ call.pc = "first"
    /\ \/ /\ call' = [call EXCEPT !.pc = "done"]
          /\ UNCHANGED <<tracks, next_id>>
       \/ /\ call.n > 0
          /\ LET r == add_track(tracks, from_spotify(next_id, "ok")) IN
             /\ tracks' = r.tracks
             /\ call' = IF r.raised
                        THEN [call EXCEPT !.pc = "done"]
                        ELSE [call EXCEPT !.pc = "added", !.queued = <<1>>]
          /\ next_id' = next_id + 1
    /\ UNCHANGED <<current_track, shuffle_mode, hvars, pvars, mvars, ovars, avars, lvars>>

\* `if not player.is_playing(): await player.play_next(ctx)`
\* (main.py:162-163): play_next takes the head of the queue and starts it.
PlaylistPlayNext ==
    /\ call.pc = "added"
    /\ IF is_playing \/ tracks = <<>>
       THEN UNCHANGED <<tracks, current_track, playback>>
       ELSE LET r == get_next_track(tracks, shuffle_mode, 1) IN
            /\ tracks' = r.tracks
            /\ current_track' = r.ret
            /\ playback' = "playing"
    /\ call' = [call EXCEPT !.pc = "launch"]
    /\ UNCHANGED <<shuffle_mode, next_id, hvars, voice_client, connected,
                   is_paused, pending, task, auto, mvars, ovars, avars, lvars>>

\* asyncio.create_task(process_spotify_playlist_background(...))
\* (main.py:166).
PlaylistLaunch_before_first ==
    /\ call.pc = "launch"
    /\ call' = [call EXCEPT !.pc = "background", !.launched_at = 0]
    /\ UNCHANGED <<qvars, next_id, hvars, pvars, mvars, ovars, avars, lvars>>

PlaylistLaunch ==
    /\ call.pc = "launch"
    /\ call' = [call EXCEPT !.pc = "background", !.launched_at = Len(call.queued)]
    /\ UNCHANGED <<qvars, next_id, hvars, pvars, mvars, ovars, avars, lvars>>

\* process_spotify_playlist_background after its fetch (main.py:171-186).
\* get_playlist_info returns no tracks when the request fails, else the
\* first MAX_PLAYLIST_SIZE tracks (spotify_auth.py:199-227); the task
\* drops the first and hands the others to add_tracks.
PlaylistBackground ==
    /\ call.pc = "background"
    /\ \/ /\ call' = [call EXCEPT !.pc = "done"]
          /\ UNCHANGED <<tracks, next_id>>
       \/ LET m == IF call.n < MAX_PLAYLIST_SIZE THEN call.n ELSE MAX_PLAYLIST_SIZE IN
          IF m <= 1
          THEN /\ call' = [call EXCEPT !.pc = "done", !.fetched = TRUE]
               /\ UNCHANGED <<tracks, next_id>>
          ELSE LET list == [i \in 1..(m - 1) |-> from_spotify(next_id + i - 1, "ok")]
                   r == add_tracks(tracks, list) IN
               /\ tracks' = r.tracks
               /\ next_id' = next_id + m - 1
               /\ call' = [call EXCEPT !.pc = "done", !.fetched = TRUE,
                                       !.room = MAX_QUEUE_SIZE - Len(tracks),
                                       !.queued = call.queued \o [i \in 1..r.ret |-> i + 1]]
    /\ UNCHANGED <<current_track, shuffle_mode, hvars, pvars, mvars, ovars, avars, lvars>>

\* Another play command queues its track (main.py:212-215, 243-251).
PlaylistOtherAdd ==
    /\ next_id <= PlMaxTracks - MaxPlaylist
    /\ LET r == add_track(tracks, from_youtube(next_id, Url, "ok")) IN
       tracks' = r.tracks
    /\ next_id' = next_id + 1
    /\ UNCHANGED <<call, current_track, shuffle_mode, hvars, pvars, mvars, ovars, avars, lvars>>

\* Another play command, finding nothing playing, or the callback of a
\* stream that ended calls play_next, which takes the head of the queue
\* (music_player.py:174-203, 205-210).
PlaylistOtherPlayNext ==
    /\ tracks # <<>>
    /\ LET r == get_next_track(tracks, shuffle_mode, 1) IN
       /\ tracks' = r.tracks
       /\ current_track' = r.ret
    /\ playback' = "playing"
    /\ UNCHANGED <<call, shuffle_mode, next_id, hvars, voice_client, connected,
                   is_paused, pending, task, auto, mvars, ovars, avars, lvars>>

PlaylistNext ==
    \/ PlaylistCommand
    \/ PlaylistFirst
    \/ PlaylistPlayNext
    \/ PlaylistLaunch
    \/ PlaylistBackground
    \/ PlaylistOtherAdd
    \/ PlaylistOtherPlayNext

PlaylistSpec == PlaylistInit /\ [][PlaylistNext]_vars

(***************************************************************************)
(* OAuthSpec: the OAuth callback server (oauth_server.py:12-98).  Callers  *)
(* register states and hold the futures they get back; the browser sends   *)
(* callback requests with any parameters.  handle_callback has no await,   *)
(* so each request is one step.  A future is                               *)
(*   state   the state it was registered for                               *)
(*   status  "pending", "done" once set_result has run, or "cancelled"     *)
(*           once its holder has cancelled it                              *)
(*   result  what set_result stored: "code", "error" or "no_code"          *)
(*   sets    the number of set_result calls that stored a result           *)
(***************************************************************************)
\* The number of futures made and of callback requests served.
MaxFutures == 3
MaxCallbacks == 3

Future(state) == [state |-> state, status |-> "pending", result |-> "none", sets |-> 0]

\* future.set_result(value): raises InvalidStateError unless the future is
\* pending.
set_result(fs, f, value) ==
    IF fs[f].status = "pending"
    THEN [futures |-> [fs EXCEPT ![f].status = "done", ![f].result = value,
                                 ![f].sets = @ + 1],
          raised |-> FALSE]
    ELSE [futures |-> fs, raised |-> TRUE]

\* handle_callback reading the future without taking it out of
\* pending_states.
handle_callback_keeps_state(state, code, error) ==
    IF state = Missing \/ state = "" \/ pending_states[state] = 0
    THEN [pending_states |-> pending_states, futures |-> futures, status |-> 400]
    ELSE LET f == pending_states[state]
             value == IF error THEN "error" ELSE IF ~code THEN "no_code" ELSE "code"
             r == set_result(futures, f, value)
         IN [pending_states |-> pending_states,
             futures |-> r.futures,
             status |-> IF r.raised THEN 500 ELSE IF value = "code" THEN 302 ELSE 400]

\* handle_callback (oauth_server.py:47-98) for a request with the given
\* state, with or without a code and an error: the dict and the futures
\* after the call and the status of the response.  The InvalidStateError
\* of set_result is caught by `except Exception` and answered with 500.
handle_callback(state, code, error) ==
    IF state = Missing \/ state = "" \/ pending_states[state] = 0
    THEN [pending_states |-> pending_states, futures |-> futures, status |-> 400]
    ELSE LET f == pending_states[state]
             value == IF error THEN "error" ELSE IF ~code THEN "no_code" ELSE "code"
             r == set_result(futures, f, value)
         IN [pending_states |-> [pending_states EXCEPT ![state] = 0],
             futures |-> r.futures,
             status |-> IF r.raised THEN 500 ELSE IF value = "code" THEN 302 ELSE 400]

\* register_state (oauth_server.py:42-46): a new future is stored under
\* the state, in place of the one that may be there.
RegisterState(state) ==
    /\ Len(futures) < MaxFutures
    /\ futures' = Append(futures, Future(state))
    /\ pending_states' = [pending_states EXCEPT ![state] = Len(futures) + 1]
    /\ UNCHANGED <<response, qvars, next_id, hvars, pvars, mvars, call, avars, lvars>>

\* A callback request is served.
HandleCallback(state, code, error) ==
    /\ response.n < MaxCallbacks
    /\ LET r == handle_callback(state, code, error) IN
       /\ pending_states' = r.pending_states
       /\ futures' = r.futures
       /\ response' = [n |-> response.n + 1, status |-> r.status, state |-> state]
    /\ UNCHANGED <<qvars, next_id, hvars, pvars, mvars, call, avars, lvars>>

\* The holder of a pending future cancels it, as asyncio.wait_for does
\* when its timeout expires.
CancelFuture(f) ==
    /\ futures[f].status = "pending"
    /\ futures' = [futures EXCEPT ![f].status = "cancelled"]
    /\ UNCHANGED <<pending_states, response, qvars, next_id, hvars, pvars, mvars, call, avars, lvars>>

OAuthNext ==
    \/ \E state \in OAuthStates : RegisterState(state)
    \/ \E state \in OAuthStates \cup {Missing} : \E code, error \in BOOLEAN :
         HandleCallback(state, code, error)
    \/ \E f \in 1..MaxFutures : f <= Len(futures) /\ CancelFuture(f)

OAuthSpec == Init /\ [][OAuthNext]_vars

(***************************************************************************)
(* VoiceSpec: the auto-disconnect handler on_voice_state_update            *)
(* (main.py:48-61) among users who join, leave and change voice channels   *)
(* and play and stop commands that connect, move and disconnect the        *)
(* player.  One handler at a time is followed through its 60 s wait; an    *)
(* event that arrives while that one waits is left to run unobserved.      *)
(***************************************************************************)
\* The users in voice channel c.
Humans(m, c) == {u \in Users : m[u] = c}

\* on_voice_state_update up to its await (main.py:51-58) for a user who
\* was in `before`, with the members as they are after the change: the
\* handler waits when the bot is in that channel and no user is.
handler_starts(m, before) ==
    before # 0 /\ channel = before /\ Humans(m, before) = {}

\* User u joins channel c, changes to it, or leaves (c = 0); the event
\* reaches on_voice_state_update.
UserMoves(u, c) ==
    /\ members[u] # c
    /\ members' = [members EXCEPT ![u] = c]
    /\ handler' = IF handler.pc = "idle" /\ handler_starts(members', members[u])
                  THEN [pc |-> "sleeping", channel |-> members[u]]
                  ELSE handler
    /\ UNCHANGED <<channel, qvars, next_id, hvars, pvars, mvars, call, ovars, lvars>>

\* A play command of user u: ensure_voice_connection connects the player
\* to the user's channel or moves it there (main.py:63-75,
\* music_player.py:138-152).
VoicePlay(u) ==
    /\ members[u] # 0
    /\ channel # members[u]
    /\ handler.pc # "disconnecting"
    /\ channel' = members[u]
    /\ UNCHANGED <<members, handler, qvars, next_id, hvars, pvars, mvars, call, ovars,
                   lvars>>

\* A stop command disconnects the player (main.py:305-309).
VoiceStop ==
    /\ channel # 0
    /\ handler.pc # "disconnecting"
    /\ channel' = 0
    /\ UNCHANGED <<members, handler, qvars, next_id, hvars, pvars, mvars, call, ovars,
                   lvars>>

\* The handler after asyncio.sleep(60) (main.py:59-61): it counts the
\* users of before.channel again and calls player.disconnect(), which
\* awaits voice_client.disconnect() when the player has a voice client
\* (music_player.py:154-157).
handler_wakes(m, h) == Humans(m, h.channel) = {} /\ channel # 0

HandlerWakes ==
    /\ handler.pc = "sleeping"
    /\ handler' = IF handler_wakes(members, handler)
                  THEN [handler EXCEPT !.pc = "disconnecting"]
                  ELSE NoHandler
    /\ UNCHANGED <<members, channel, qvars, next_id, hvars, pvars, mvars, call, ovars,
                   lvars>>

\* disconnect() after its await: the voice client is dropped
\* (music_player.py:158).
HandlerDisconnected ==
    /\ handler.pc = "disconnecting"
    /\ channel' = 0
    /\ handler' = NoHandler
    /\ UNCHANGED <<members, qvars, next_id, hvars, pvars, mvars, call, ovars, lvars>>

VoiceNext ==
    \/ \E u \in Users : \E c \in Channels \cup {0} : UserMoves(u, c)
    \/ \E u \in Users : VoicePlay(u)
    \/ VoiceStop
    \/ HandlerWakes
    \/ HandlerDisconnected

VoiceSpec == Init /\ [][VoiceNext]_vars

(***************************************************************************)
(* EquivSpec: the legacy MusicBot (bot.py:59-313) and the MusicPlayer      *)
(* generation given the same single-track play and skip commands and the   *)
(* same ends of streams, each command and each completion callback run to  *)
(* its end before the next begins, with every lookup and every source      *)
(* succeeding.  The new generation runs in tracks, current_track,          *)
(* voice_client, connected and playback; the legacy bot in queues,         *)
(* voice_clients and legacy_playback.  `handed` records                    *)
(*   new, old   the tracks handed to voice_client.play by each, in order   *)
(*   reached    the new queue has held MAX_QUEUE_SIZE tracks               *)
(*   rejected   add_track has refused a track                              *)
(*   outside    a play command came from a user who is in no voice channel *)
(*              or whose channel could not be joined                       *)
(*   skipped    a skip command has stopped a stream                        *)
(***************************************************************************)
\* The number of play commands.
EqMaxTracks == 4

\* MusicPlayer.play_next (music_player.py:169-208) on a transport that is
\* not playing, every await succeeding: the queue after the call and the
\* track started, NoTrack for none.
play_next_through(q, conn) ==
    IF ~conn
    THEN [tracks |-> q, started |-> NoTrack]
    ELSE LET r == get_next_track(q, shuffle_mode, 1) IN
         [tracks |-> r.tracks, started |-> r.ret]

\* The legacy play_next taking the song queued last.
legacy_play_next_pops_last(q, vc, in_voice) ==
    IF q = <<>> \/ (vc = "None" /\ ~in_voice)
    THEN [queue |-> q, vc |-> vc, started |-> NoTrack]
    ELSE [queue |-> SubSeq(q, 1, Len(q) - 1), vc |-> "vc", started |-> q[Len(q)]]

\* MusicBot.play_next (bot.py:137-186) with get_voice_client
\* (bot.py:298-311): nothing happens on an empty queue or when there is
\* no voice client and the author's channel cannot be joined; otherwise
\* the first song is popped and played.
legacy_play_next(q, vc, in_voice) ==
    IF q = <<>> \/ (vc = "None" /\ ~in_voice)
    THEN [queue |-> q, vc |-> vc, started |-> NoTrack]
    ELSE [queue |-> Tail(q), vc |-> "vc", started |-> Head(q)]

\* What a play_next that started track `t` (or none) leaves behind.
Handed(log, t) == IF t = NoTrack THEN log ELSE Append(log, t.id)
Playing(before, t) == IF t = NoTrack THEN before ELSE "playing"

\* A play command with a single YouTube track.  New generation
\* (main.py:77-99, 231-263): ensure_voice_connection, lookup, add_track,
\* and play_next unless the player is playing.  Legacy (bot.py:66-125,
\* 321-332): the song is appended, then play_next is called unless the
\* voice client is playing.
EqPlay(in_voice) ==
    /\ next_id <= EqMaxTracks
    /\ next_id' = next_id + 1
    /\ LET trk == from_youtube(next_id, Url, "ok")
           a == add_track(tracks, trk)
           p == IF a.raised \/ is_playing
                THEN [tracks |-> a.tracks, started |-> NoTrack]
                ELSE play_next_through(a.tracks, TRUE)
           l == IF voice_clients = "vc" /\ legacy_playback = "playing"
                THEN [queue |-> Append(queues, trk), vc |-> voice_clients,
                      started |-> NoTrack]
                ELSE legacy_play_next(Append(queues, trk), voice_clients, in_voice)
       IN /\ IF in_voice
             THEN /\ voice_client' = "vc"
                  /\ connected' = TRUE
                  /\ tracks' = p.tracks
                  /\ current_track' = IF p.started = NoTrack
                                      THEN current_track ELSE p.started
                  /\ playback' = Playing(playback, p.started)
             ELSE UNCHANGED <<voice_client, connected, tracks, current_track, playback>>
          /\ queues' = l.queue
          /\ voice_clients' = l.vc
          /\ legacy_playback' = Playing(legacy_playback, l.started)
          /\ handed' = [handed EXCEPT
                          !.new = IF in_voice THEN Handed(@, p.started) ELSE @,
                          !.old = Handed(@, l.started),
                          !.reached = @ \/ (in_voice /\ Len(a.tracks) >= MAX_QUEUE_SIZE),
                          !.rejected = @ \/ (in_voice /\ a.raised),
                          !.outside = @ \/ ~in_voice]
    /\ UNCHANGED <<shuffle_mode, hvars, is_paused, pending, task, auto, mvars, call,
                   ovars, avars>>

\* The stream of a generation that is playing stops without an error and
\* its completion callback runs play_next (music_player.py:196-201,
\* bot.py:156-161); a generation that is not playing is left alone.
Advance(skip) ==
    LET p == play_next_through(tracks, is_connected)
        l == legacy_play_next(queues, voice_clients, FALSE)
    IN /\ IF is_playing
          THEN /\ tracks' = p.tracks
               /\ current_track' = IF p.started = NoTrack
                                   THEN current_track ELSE p.started
               /\ playback' = Playing("none", p.started)
          ELSE UNCHANGED <<tracks, current_track, playback>>
       /\ IF legacy_playback = "playing"
          THEN /\ queues' = l.queue
               /\ legacy_playback' = Playing("none", l.started)
          ELSE UNCHANGED <<queues, legacy_playback>>
       /\ handed' = [handed EXCEPT
                       !.new = IF is_playing THEN Handed(@, p.started) ELSE @,
                       !.old = IF legacy_playback = "playing"
                               THEN Handed(@, l.started) ELSE @,
                       !.skipped = @ \/ skip]

\* A skip command (main.py:265-277 with MusicPlayer.skip; bot.py:203-220):
\* each generation stops its stream if it is playing.
EqSkip ==
    /\ is_playing \/ legacy_playback = "playing"
    /\ Advance(TRUE)
    /\ UNCHANGED <<voice_client, connected, voice_clients, shuffle_mode, next_id, hvars,
                   is_paused, pending, task, auto, mvars, call, ovars, avars>>

\* The streams end by themselves: without an error as after a skip, with
\* an error the callbacks only log.
EqTrackEnds(error) ==
    /\ is_playing \/ legacy_playback = "playing"
    /\ IF error
       THEN /\ playback' = IF is_playing THEN "failed" ELSE playback
            /\ legacy_playback' = IF legacy_playback = "playing"
                                  THEN "failed" ELSE legacy_playback
            /\ UNCHANGED <<tracks, current_track, queues, handed>>
       ELSE Advance(FALSE)
    /\ UNCHANGED <<voice_client, connected, voice_clients, shuffle_mode, next_id, hvars,
                   is_paused, pending, task, auto, mvars, call, ovars, avars>>

EquivNext ==
    \/ \E in_voice \in BOOLEAN : EqPlay(in_voice)
    \/ EqSkip
    \/ \E error \in BOOLEAN : EqTrackEnds(error)

EquivSpec == Init /\ [][EquivNext]_vars

(***************************************************************************)
(* Properties of play_next, checked under Spec and FairSpec.               *)
(***************************************************************************)
\* Task t resumes from the await it is suspended at.
Leaves(t, at) ==
    /\ task[t].pc = at
    /\ (task'[t].pc # at \/ task'[t].track # task[t].track)

\* C1: at most one play_next call per guild is between its dequeue and its
\* return at any time.
C1_OnePlayNextInFlight == Cardinality({t \in Tasks : InFlight(t)}) <= 1

\* C2: play_next never hands a source to voice_client.play while the
\* transport is playing or paused on an earlier stream.
C2_NoDoublePlay ==
    [][\A t \in Tasks :
          (Leaves(t, "materialize") /\ task[t].track.fate # "nosource")
              => playback \notin {"playing", "paused"}]_vars

\* The outermost play_next of task t has returned after starting on a
\* connected player with only unplayable tracks queued, and no track was
\* added since it started.
DrainedUndisturbed(t, states) ==
    /\ task[t].pc = "returned"
    /\ task[t].watch \in states

\* C9 as claimed: such a call returns False and leaves the queue empty,
\* provided only that no track is added while it runs.
C9_AsClaimed ==
    \A t \in Tasks :
        DrainedUndisturbed(t, {"on", "disc"}) => (task[t].ret = "False" /\ tracks = <<>>)

\* C9 amended: a play_next call on a connected player whose queue holds
\* only unplayable tracks returns False with the queue empty, and it does
\* return, provided no track is added and the player is not disconnected
\* while it runs.
C9_DrainsUnplayable ==
    /\ [](\A t \in Tasks :
            DrainedUndisturbed(t, {"on"}) => (task[t].ret = "False" /\ tracks = <<>>))
    /\ \A t \in Tasks :
            (InFlight(t) /\ task[t].watch = "on")
                ~> (~InFlight(t) \/ task[t].watch # "on")

\* A call has skipped two unplayable tracks and returned False, undisturbed.
C9_Witness ==
    \E t \in Tasks :
        /\ DrainedUndisturbed(t, {"on"})
        /\ task[t].depth >= 2
        /\ task[t].ret = "False"
        /\ tracks = <<>>

\* A track whose resolution and materialization succeeded.
Playable(trk) == trk.fate = "ok" /\ trk.url # NoUrl /\ ~trk.needs_resolution

\* C10: current_track changes only to a track that was resolved and
\* materialized, in the step of the play_next call that did so; a step
\* that skips a failing track leaves current_track as it was.
C10_CurrentTrackPlayable ==
    [][/\ current_track' # current_track =>
            \E t \in Tasks : /\ Leaves(t, "materialize")
                              /\ task[t].track = current_track'
                              /\ Playable(current_track')
       /\ \A t \in Tasks :
            ((Leaves(t, "resolve") \/ Leaves(t, "materialize"))
                /\ Unplayable(task[t].track))
                => current_track' = current_track]_vars

\* A call skipped an unplayable track and returned while current_track
\* still holds the track played before.
C10_Witness ==
    \E t \in Tasks :
        /\ DrainedUndisturbed(t, {"on"})
        /\ task[t].depth = 1
        /\ current_track # NoTrack

\* The step of task t in which its track fails: no url after resolution
\* (music_player.py:183), no source (189), or voice_client.play raising (203).
FailsIn(t) ==
    \/ Leaves(t, "resolve") /\ resolve_track_url(task[t].track).url = NoUrl
    \/ Leaves(t, "materialize") /\ task[t].track.fate = "nosource"
    \/ Leaves(t, "materialize") /\ task[t].track.fate # "nosource" /\ PlayRaises

\* C11: a failure of resolution, materialization or hand-over never leaves
\* play_next: the call goes on with the next queued track if the player is
\* connected and the queue non-empty, and returns False otherwise; whatever
\* play_next returns is a boolean.
C11_FailureRecoveredLocally ==
    /\ [](\A t \in Tasks : task[t].pc = "returned" => task[t].ret \in {"True", "False"})
    /\ [][\A t \in Tasks : FailsIn(t) =>
            IF is_connected /\ tracks # <<>>
            THEN /\ task'[t].pc \in {"resolve", "materialize"}
                 /\ task'[t].track = Head(tracks)
                 /\ task'[t].depth = task[t].depth + 1
                 /\ tracks' = Tail(tracks)
            ELSE /\ task'[t].pc = "returned"
                 /\ task'[t].ret = "False"
                 /\ tracks' = tracks]_vars

\* A call started by the completion callback is working on the track it
\* took after an earlier one failed.
C11_Witness ==
    \E t \in Tasks : InFlight(t) /\ task[t].depth >= 1 /\ task[t].kind = "after"

\* The transport reports the clean end of its stream: the stream ran out or
\* was stopped.
CleanEnd == playback \in {"playing", "paused"} /\ playback' = "none"

\* C12: every clean completion of a stream schedules exactly one play_next,
\* nothing else schedules one, and each scheduled call is started exactly
\* once, as a new play_next on the player.
C12_OneCallPerCleanEnd ==
    [][/\ CleanEnd => pending' = pending + 1
       /\ pending' > pending => CleanEnd
       /\ pending' < pending =>
             /\ pending' = pending - 1
             /\ \E t \in Tasks : /\ task[t].pc = "idle"
                                 /\ task'[t].kind = "after"
                                 /\ \A u \in Tasks \ {t} : task'[u] = task[u]]_vars

\* The call scheduled by a completion has started the next track.
C12_Witness ==
    \E t \in Tasks : /\ task[t].kind = "after"
                     /\ task[t].pc = "notify"
                     /\ task[t].depth = 0
                     /\ pending = 0

\* The transport reports that its stream ended with an error.
ErrorEnd == playback = "playing" /\ playback' = "failed"

\* The last stream ended with an error and no play_next is in flight or
\* scheduled.
Halted ==
    /\ playback = "failed"
    /\ pending = 0
    /\ \A t \in Tasks : ~InFlight(t)

C14_SkipAdvancesToHead ==
    [][\A t \in Tasks :
          (/\ Leaves(t, "materialize")
           /\ task[t].kind = "after"
           /\ task[t].track.fate = "ok"
           /\ is_connected)
              => task'[t].pc = "notify"]_vars

\* C15: a connected player whose last stream did not end in an error never
\* rests with tracks queued, the transport neither playing nor paused, no
\* play_next in flight or scheduled and no command under way.
C15_NoStall ==
    ~(/\ is_connected
      /\ tracks # <<>>
      /\ playback = "none"
      /\ pending = 0
      /\ auto = "idle"
      /\ \A t \in Tasks : task[t].pc = "idle")

\* C16: a track whose resolution or materialization completes on a player
\* that was stopped or disconnected meanwhile is dropped: it is not handed
\* to the transport and does not become current_track.
C16_StaleResultDiscarded ==
    [][\A t \in Tasks :
          (Leaves(t, "materialize") /\ ~is_connected)
              => /\ current_track' = current_track
                 /\ task'[t].pc # "notify"]_vars

\* What pause() and resume() may change, and what else makes up the state
\* of the player.
ControlFrame == <<voice_client, connected, playback, is_paused, tracks, current_track>>

\* C17: pause() has an effect only on a playing transport and resume() only
\* on a paused one; in every other state the call returns False and leaves
\* transport, is_paused, queue and current_track as they were, so that a
\* second call in the same state changes nothing either.
C17_PauseResumeGuarded ==
    [][/\ last'.op = "pause" =>
             IF voice_client # "None" /\ playback = "playing"
             THEN last'.ret /\ playback' = "paused" /\ is_paused'
             ELSE ~last'.ret /\ ControlFrame' = ControlFrame
       /\ last'.op = "resume" =>
             IF voice_client # "None" /\ playback = "paused"
             THEN last'.ret /\ playback' = "playing" /\ ~is_paused'
             ELSE ~last'.ret /\ ControlFrame' = ControlFrame
       /\ last'.op \in {"pause", "resume"} =>
             <<voice_client, connected, tracks, current_track>>' =
             <<voice_client, connected, tracks, current_track>>]_vars

\* pause() was called on a player that is already paused and returned False.
C17_Witness ==
    /\ last = Did("pause", FALSE)
    /\ playback = "paused"
    /\ is_paused
    /\ tracks # <<>>

\* A disconnect() call reaches its await / runs on from it to its end.
DisconnectAwaits == auto = "idle" /\ auto' = "disconnecting"
DisconnectReturns ==
    \/ auto = "disconnecting" /\ auto' = "idle"
    \/ \E t \in Tasks : Leaves(t, "disconnecting")

\* C18: when disconnect() returns the player holds no transport handle,
\* whatever state it was in, and neither part of disconnect() changes
\* queue.tracks.
C18_DisconnectKeepsQueue ==
    [][/\ DisconnectAwaits => tracks' = tracks
       /\ DisconnectReturns => /\ voice_client' = "None"
                               /\ ~is_playing'
                               /\ ~is_connected'
                               /\ tracks' = tracks]_vars

\* The player was disconnected while it had a track playing and others
\* queued: no handle, the queue as it was.
C18_Witness ==
    /\ voice_client = "None"
    /\ auto = "idle"
    /\ current_track # NoTrack
    /\ Len(tracks) = 2
    /\ \A t \in Tasks : task[t].pc = "idle"

\* connect_to_voice returns False to the command that called it: the
\* connect or the move raised, and ensure_voice_connection ends the command
\* (main.py:71-73, 84-85).
ConnectFails(t) ==
    /\ Leaves(t, "connect") \/ Leaves(t, "move")
    /\ task'[t].pc = "refused"

\* C19: a connect_to_voice call that fails, on the initial connect or on a
\* move, leaves the transport handle and its state, the queue and
\* current_track as they were, and the command goes no further.
C19_ConnectFailureKeepsState ==
    [][\A t \in Tasks :
          /\ ConnectFails(t) =>
                /\ <<voice_client, connected, playback, is_paused>>' =
                   <<voice_client, connected, playback, is_paused>>
                /\ <<tracks, current_track>>' = <<tracks, current_track>>
                /\ pending' = pending
          /\ (Leaves(t, "connect") \/ Leaves(t, "move")) =>
                task'[t].pc \in {"refused", "lookup"}]_vars

\* A move has failed on a player that is playing with a track queued: the
\* command is telling the user, the player plays on.
C19_Witness ==
    /\ \E t \in Tasks : task[t].pc = "refused"
    /\ is_playing
    /\ current_track # NoTrack
    /\ tracks # <<>>

\* C20: a Track has needs_resolution true exactly when it has no url, from
\* its construction on and as _resolve_track_url leaves it: the flag is
\* cleared only when the resolution has supplied a url.
C20_NeedsResolutionIffNoUrl ==
    /\ [](\A i \in 1..Len(tracks) : tracks[i].needs_resolution = (tracks[i].url = NoUrl))
    /\ [][\A t \in Tasks :
            Leaves(t, "resolve") =>
                LET trk == resolve_track_url(task[t].track) IN
                trk.needs_resolution = (trk.url = NoUrl)]_vars

\* C22: play_next on a player that is not connected returns False and
\* leaves queue.tracks and current_track as they were.
C22_IdlePlayNextKeepsQueue ==
    [][(last'.op = "play_next" /\ ~is_connected)
          => /\ last'.ret = FALSE
             /\ tracks' = tracks
             /\ current_track' = current_track]_vars

\* play_next has just returned False on a disconnected player with tracks
\* queued.
C22_Witness ==
    /\ last.op = "play_next"
    /\ ~last.ret
    /\ ~is_connected
    /\ tracks # <<>>

\* C26: the step of the background playlist task that appends its tracks
\* leaves current_track, the transport and is_paused as they were and keeps
\* the tracks already queued, in their order, at the front of the queue.
C26_BackgroundOnlyAppends ==
    [][last'.op = "background"
          => /\ <<voice_client, connected, playback, is_paused, current_track>>' =
                <<voice_client, connected, playback, is_paused, current_track>>
             /\ Len(tracks') >= Len(tracks)
             /\ last'.ret = (Len(tracks') > Len(tracks))
             /\ SubSeq(tracks', 1, Len(tracks)) = tracks]_vars

\* The remaining tracks of a playlist were appended while its first track
\* plays: current_track is still that first track.
C26_Witness ==
    /\ last.op = "background"
    /\ last.ret
    /\ playback = "playing"
    /\ current_track.id = 1
    /\ current_track.source = "spotify->youtube"

\* C27: the background playlist task ending in a failure changes nothing
\* of the player: transport, is_paused, current_track and queue are as they
\* were.
C27_BackgroundFailureHarmless ==
    [][last'.op = "background_failed"
          => /\ ControlFrame' = ControlFrame
             /\ is_paused' = is_paused]_vars

\* The background task failed while a track plays and others are queued.
C27_Witness ==
    /\ last.op = "background_failed"
    /\ playback = "playing"
    /\ current_track # NoTrack
    /\ tracks # <<>>

\* C28: current_track changes only in the step of play_next that has got
\* its source and hands it to the transport (music_player.py:194-203), and
\* it becomes the track of that call; no command, no callback, no
\* disconnect and no queue operation changes it.
C28_CurrentTrackSetOnlyByPlayNext ==
    [][current_track' # current_track
          => \E t \in Tasks :
               /\ Leaves(t, "materialize")
               /\ task[t].track.fate # "nosource"
               /\ current_track' = task[t].track
               /\ \/ playback' = "playing" /\ task'[t].pc = "notify"
                  \/ PlayRaises]_vars

\* play_next has just made the track it started the current one, after an
\* earlier track was queued, with tracks still waiting.
C28_Witness ==
    \E t \in Tasks :
      /\ task[t].pc = "notify"
      /\ task[t].track = current_track
      /\ current_track.id > 1
      /\ tracks # <<>>

\* C34: on a connected player, a track that play_next took from the queue
\* and that resolved and materialized is handed to the transport and
\* played; only a track whose resolution or materialization failed is
\* dropped.
C34_PlayableDequeuedIsPlayed ==
    [][\A t \in Tasks :
          (/\ Leaves(t, "materialize")
           /\ task[t].track.fate = "ok"
           /\ is_connected)
              => /\ task'[t].pc = "notify"
                 /\ playback' = "playing"]_vars

\* C35: while the transport is playing or paused, queue.current_track (the
\* "Now Playing" entry of get_queue_info) is the track whose stream the
\* transport accepted last.  Stated by steps: a step after which the
\* transport is playing or paused writes current_track only by accepting a
\* stream, and then writes the track of that stream.
C35_NowPlayingIsOnTransport ==
    [][playback' \in {"playing", "paused"}
          => /\ \A t \in Tasks :
                  (Leaves(t, "materialize") /\ task'[t].pc = "notify")
                      => current_track' = task[t].track
             /\ current_track' # current_track
                  => \E t \in Tasks :
                       Leaves(t, "materialize") /\ task'[t].pc = "notify"]_vars

\* C36: MusicPlayer.is_paused is true exactly when the player has a
\* transport and the transport is paused.
C36_IsPausedMatchesTransport ==
    is_paused <=> (voice_client # "None" /\ playback = "paused")

\* The stop command has stopped the transport and cleared the queue, and
\* no play command has connected the player since (in StopSpec the player
\* has no voice client only before its first connection and after a
\* completed stop).
Stopped == voice_client = "None" \/ \E t \in Tasks : task[t].kind = "stop"

\* C37: from the stop command on and as long as no play command is under
\* way, nothing is added to the queue the command emptied, no stream
\* starts and current_track is not written, whatever completion callback
\* or background playlist task was pending when the player was stopped.
C37_StoppedStaysStopped ==
    [][(Stopped /\ \A t \in Tasks : task[t].kind \notin {"play", "playlist"})
          => /\ Len(tracks') <= Len(tracks)
             /\ playback' # "playing"
             /\ current_track' = current_track]_vars

\* C38: when the auto-disconnect handler, after its wait, disconnects the
\* player, no user is in the voice channel the player is in at that moment.
C38_DisconnectsOnlyWhenAlone ==
    [][(handler.pc = "sleeping" /\ handler'.pc = "disconnecting")
          => Humans(members, channel) = {}]_vars

(***************************************************************************)
(* Properties of MusicManager, checked under ManagerSpec.                  *)
(***************************************************************************)
\* C23: the registry never holds two entries for one guild, and a
\* get_player(g) call returns the player that the previous get_player(g)
\* returned unless a cleanup has touched g in between, whatever coroutines
\* are suspended meanwhile.
C23_OnePlayerPerGuild ==
    [][/\ \A g \in Guilds :
            Cardinality({i \in 1..Len(players') : players'[i].guild = g}) <= 1
       /\ (last'.op = "get_player" /\ got[last'.guild] # 0)
            => last'.ret = got[last'.guild]]_vars

\* A second get_player for a guild, made while a cleanup is suspended in
\* its disconnect.
C23_Witness ==
    /\ last.op = "get_player"
    /\ last.again
    /\ \E c \in Cleanups : cleanup[c].pc = "disconnecting"

\* C24: a cleanup_all call that has ended has ended without an exception
\* and with an empty registry.
C24_CleanupAllCompletes ==
    (last.op = "cleanup_all" /\ last.ret # "await")
        => (last.ret = "None" /\ players = <<>>)

\* C25: a cleanup_player call never ends in an exception.
C25_CleanupPlayerNoError ==
    last.op = "cleanup_player" => last.ret # "KeyError"

(***************************************************************************)
(* Properties of the audio source layer and the Track constructors,        *)
(* checked under SourceSpec.                                               *)
(***************************************************************************)
\* C21: a track built by from_youtube in handle_youtube_content has
\* needs_resolution false, and a track built by from_spotify has
\* needs_resolution true as long as it has not been resolved.
C21_ConstructorsSetNeedsResolution ==
    /\ (call.fn = "from_youtube" /\ call.pc = "done") => ~call.track.needs_resolution
    /\ (call.fn = "from_spotify" /\ call.pc = "built") => call.track.needs_resolution

\* C29: get_youtube_info runs no strategy after one that failed with an
\* error other than bot detection.
C29_OtherFailureEndsResolution ==
    call.fn = "get_youtube_info"
        => \A j \in 1..(call.i - 1) : call.outcomes[j] # "error"

\* C30: create_audio_source makes no attempt after one that failed with an
\* error other than bot detection.
C30_OtherErrorFailsAtOnce ==
    call.fn = "create_audio_source"
        => \A j \in 1..(call.i - 1) : call.outcomes[j] # "error"

\* C31: create_audio_source makes at most 3 attempts and sleeps only
\* between attempts; it ends with a source or with None, never with an
\* exception; and when every attempt fails with bot detection it has slept
\* 1 s and 2 s before the 2nd and 3rd attempt and returns None.
C31_ThreeAttemptsWithBackoff ==
    call.fn = "create_audio_source"
        => /\ call.tried <= 3
           /\ Len(call.delays) <= 2
           /\ Len(call.delays) <= call.tried
           /\ call.pc = "done" => call.result \in {"source", "None"}
           /\ (call.pc = "done" /\ \A j \in 1..3 : call.outcomes[j] = "bot")
                 => /\ call.tried = 3
                    /\ call.delays = <<1, 2>>
                    /\ call.result = "None"

\* A call whose three attempts all met bot detection has ended.
C31_Witness ==
    /\ call.fn = "create_audio_source"
    /\ call.pc = "done"
    /\ \A j \in 1..3 : call.outcomes[j] = "bot"
    /\ call.delays = <<1, 2>>

(***************************************************************************)
(* Properties of the playlist command, checked under PlaylistSpec.         *)
(***************************************************************************)
\* The playlist positions 1..n in order.
UpTo(n) == [i \in 1..n |-> i]

CarriesPending == response'.state \in OAuthStates /\ pending_states[response'.state] # 0

\* The step resolves future f with a code or an error and nothing else.
Resolves(f) ==
    /\ futures[f].status = "pending"
    /\ futures'[f].status = "done"
    /\ futures'[f].result \in {"code", "error", "no_code"}
    /\ futures'[f].sets = 1
    /\ \A g \in 1..Len(futures) : g # f => futures'[g] = futures[g]

\* C40 as stated: the first callback carrying a registered state resolves
\* its future and removes the state; any other callback gets 400 and
\* changes nothing; no future is resolved twice.
C40_AsClaimed ==
    [][response'.n # response.n
          => /\ \A f \in 1..Len(futures') : futures'[f].sets <= 1
             /\ IF CarriesPending
                THEN /\ Resolves(pending_states[response'.state])
                     /\ pending_states' = [pending_states EXCEPT ![response'.state] = 0]
                ELSE /\ response'.status = 400
                     /\ futures' = futures
                     /\ pending_states' = pending_states]_vars

\* C40: a registered state other than "" is consumed by at most one
\* callback: the first callback carrying it removes it from pending_states
\* and resolves its future, once, with the code or an error, unless the
\* holder has cancelled the future, in which case no future is resolved
\* and the reply is 500.  A callback whose state is missing, empty, unknown
\* or already consumed gets 400, resolves no future and leaves
\* pending_states unchanged.  No future is resolved twice.
C40_StateConsumedOnce ==
    [][response'.n # response.n
          => /\ \A f \in 1..Len(futures') : futures'[f].sets <= 1
             /\ IF CarriesPending /\ response'.state # ""
                THEN /\ pending_states' = [pending_states EXCEPT ![response'.state] = 0]
                     /\ IF futures[pending_states[response'.state]].status = "pending"
                        THEN /\ Resolves(pending_states[response'.state])
                             /\ response'.status \in {302, 400}
                        ELSE /\ futures' = futures
                             /\ response'.status = 500
                ELSE /\ response'.status = 400
                     /\ futures' = futures
                     /\ pending_states' = pending_states]_vars

\* A first callback with state "a" has resolved the future with its code,
\* and a second callback with the same state has been answered 400.
C40_Witness ==
    /\ response.n = 2
    /\ response.state = "a"
    /\ response.status = 400
    /\ pending_states["a"] = 0
    /\ \E f \in 1..Len(futures) :
         /\ futures[f].state = "a"
         /\ futures[f].result = "code"
         /\ futures[f].sets = 1

Min(a, b) == IF a < b THEN a ELSE b

Ids(q) == {q[i].id : i \in 1..Len(q)}

\* C3: in every reachable state the queue holds at most MAX_QUEUE_SIZE
\* tracks, whatever the order of add_track, add_tracks, get_next_track,
\* remove_track and clear.
C3_QueueBounded == Len(tracks) <= MAX_QUEUE_SIZE

\* add_tracks was handed more tracks than fit and the queue is now full.
C3_Witness ==
    /\ last.op = "add_tracks"
    /\ Len(last.batch) > last.n
    /\ Len(tracks) = MAX_QUEUE_SIZE

\* C4: add_track on a full queue raises the queue-full error and leaves
\* tracks and current_track as they were.
C4_AddTrackFullRejected ==
    [][(last'.op = "add_track" /\ Len(tracks) >= MAX_QUEUE_SIZE)
         => /\ last'.raised
            /\ tracks' = tracks
            /\ current_track' = current_track]_vars

\* A rejected add_track on a full queue.
C4_Witness ==
    /\ last.op = "add_track"
    /\ last.raised
    /\ Len(tracks) = MAX_QUEUE_SIZE
    /\ last.track.id \notin Ids(tracks)

\* C5: without shuffle, get_next_track returns the tracks in the order of
\* their appends (ids are given in that order), each at most once, and a
\* returned track is no longer queued: whatever is still queued was
\* appended after everything returned so far.
C5_FifoOrder ==
    ~shuffle_mode =>
        /\ \A i, j \in 1..Len(dequeued) : i < j => dequeued[i] < dequeued[j]
        /\ \A i \in 1..Len(dequeued) : \A k \in 1..Len(tracks) :
               dequeued[i] < tracks[k].id

\* Two tracks were returned and a later one is still queued.
C5_Witness ==
    /\ ~shuffle_mode
    /\ Len(dequeued) >= 2
    /\ tracks # <<>>

\* C6: add_tracks(list) with k free slots appends the first min(N, k)
\* tracks of the list in order, returns min(N, k) and does not raise.
C6_AddTracksPartial ==
    [][last'.op = "add_tracks"
         => LET k == MAX_QUEUE_SIZE - Len(tracks)
                m == Min(Len(last'.batch), k)
            IN /\ tracks' = tracks \o SubSeq(last'.batch, 1, m)
               /\ last'.n = m
               /\ ~last'.raised]_vars

\* add_tracks added some but not all of its list.
C6_Witness ==
    /\ last.op = "add_tracks"
    /\ last.n > 0
    /\ Len(last.batch) > last.n

\* C7: add_track on a queue with room appends the track at the tail and
\* returns its 1-based position, the new length.
C7_AddTrackPosition ==
    [][(last'.op = "add_track" /\ Len(tracks) < MAX_QUEUE_SIZE)
         => /\ ~last'.raised
            /\ tracks' = Append(tracks, last'.track)
            /\ last'.n = Len(tracks')]_vars

\* add_track put a track behind an earlier one and returned position 2.
C7_Witness ==
    /\ last.op = "add_track"
    /\ ~last.raised
    /\ last.n = 2
    /\ Len(tracks) = 2
    /\ tracks[2] = last.track

\* C8: get_next_track on an empty queue returns None and changes neither
\* tracks nor current_track.
C8_GetNextEmpty ==
    [][(last'.op = "get_next_track" /\ tracks = <<>>)
         => /\ last'.track = NoTrack
            /\ tracks' = tracks
            /\ current_track' = current_track]_vars

\* get_next_track found the queue empty while a current track was set.
C8_Witness ==
    /\ last.op = "get_next_track"
    /\ last.track = NoTrack
    /\ tracks = <<>>
    /\ current_track # NoTrack


\* C33: with shuffle_mode on, get_next_track on a non-empty queue returns a
\* track of the queue and removes that entry alone: the queue is one
\* shorter and the other tracks keep their order.
C33_ShuffleRemovesTheReturned ==
    [][(last'.op = "get_next_track" /\ shuffle_mode /\ tracks # <<>>)
          => \E i \in 1..Len(tracks) :
               /\ last'.track = tracks[i]
               /\ Len(tracks') = Len(tracks) - 1
               /\ \A k \in 1..Len(tracks') :
                     tracks'[k] = IF k < i THEN tracks[k] ELSE tracks[k + 1]]_vars

\* A shuffled get_next_track has returned a track from behind the head,
\* which is still queued.
C33_Witness ==
    /\ shuffle_mode
    /\ last.op = "get_next_track"
    /\ tracks # <<>>
    /\ last.track.id > tracks[1].id

=============================================================================
